---- MODULE Spec2Model ----
(***************************************************************************)
(* The encrypted secret vault of gitbrowser: the master-password vault     *)
(* (PasswordManager), the GitHub token store (GitHubIntegration), the      *)
(* rekey performed by the password.unlock request, and the secret.*        *)
(* requests, over the tables of one SQLite database.                       *)
(*                                                                         *)
(* Cryptography is symbolic.  A byte string is a record tagged by t: the   *)
(* bytes of a text, a random salt, a derived key, a nonce, a GCM           *)
(* ciphertext or a GCM tag.  PBKDF2 is an injective constructor of its     *)
(* inputs; AES-256-GCM opens a blob exactly when key, nonce, ciphertext    *)
(* and tag are the ones one seal produced.  A random draw (salt, nonce,    *)
(* uuid) is a value no earlier draw returned: the draws are numbered.      *)
(***************************************************************************)
EXTENDS Integers, Sequences, FiniteSets, TLC

\* ------------------------------------------------------------------ bounds
\* Requests handled in one behaviour of the vault, of the dependent store and
\* the secret facade, and of the whole process.
MaxVaultOps == 4
MaxStoreOps == 5
MaxOps == 3
MaxArchiveOps == 6
MaxRekeyOps == 5
MaxCryptoOps == 4
MaxMigrateOps == 6
MaxMutexOps == 4
\* Largest value of the clock (seconds) read by now_ts.
MaxClock == 1

\* ------------------------------------------------------------ input domains
MasterPasswords == {"pw1", "pw2"}
Urls == {"https://example.com"}
Usernames == {"alice"}
NewUsernames == {"bob"}
SitePasswords == {"s3cret"}
NewPasswords == {"hunter2"}
Tokens == {"ghp_a", "ghp_b"}
Logins == {"octocat"}
Providers == {"openai"}
ApiKeys == {"sk-a"}
SecretKeys == {"k1", "k2"}
\* The threads that call handle_method.
Threads == {1, 2}
SecretValues == {"v1", "v2"}
SyncData == {"bookmarks"}
\* Plaintexts, the empty one included; keys of 32 bytes, derived and not; byte
\* strings that have neither the length of a key, nor of a nonce, nor of a tag.
Plaintexts == {[t |-> "str", s |-> ""], [t |-> "str", s |-> "a"], [t |-> "str", s |-> "s3cret"]}
CipherKeys ==
    {[t |-> "key", pw |-> "pw1", salt |-> [t |-> "salt", v |-> 0]],
     [t |-> "key", pw |-> "pw2", salt |-> [t |-> "salt", v |-> 0]],
     [t |-> "str", s |-> "0123456789abcdef0123456789abcdef"]}
WrongLengths ==
    {[t |-> "str", s |-> ""], [t |-> "str", s |-> "0123456789a"],
     [t |-> "str", s |-> "0123456789abcdef0123456789abcdef0"]}
\* Row ids of the credentials table: a reserved name or a v4 uuid.
RowId(s) == [t |-> "id", s |-> s]
Uuid(i) == [t |-> "uuid", n |-> i]

\* ------------------------------------------------------------------- values
NONE == [t |-> "none"]
Some(v) == [t |-> "some", v |-> v]
Bool(b) == [t |-> "bool", b |-> b]
Unit == [t |-> "unit"]
Ok(v) == [ok |-> TRUE, v |-> v]
Err(kind) == [ok |-> FALSE, v |-> [t |-> "err", e |-> kind]]

\* str.as_bytes(): the bytes of a text.
Bytes(s) == [t |-> "str", s |-> s]
\* Vec::<u8>::new()
EmptyBytes == Bytes("")
\* 16 random bytes
SaltBytes(n) == [t |-> "salt", v |-> n]
\* 12 random bytes
NonceBytes(n) == [t |-> "nonce", v |-> n]

\* ------------------------------------------------------- crypto_service.rs
KEY_LENGTH == 32
NONCE_LENGTH == 12
TAG_LENGTH == 16
SALT_LENGTH == 16

\* Vec::len() of the byte strings whose length the code reads: keys, nonces,
\* tags, salts, texts and their ciphertexts.  The text serde_json::to_vec
\* writes is given no length here: it lists every byte of every entry as a
\* decimal number, so its length depends on byte values that are not kept, and
\* no length check of the code is applied to it.
RECURSIVE ByteLen(_)
ByteLen(b) ==
    CASE b.t = "str" -> Len(b.s)
      [] b.t = "salt" -> SALT_LENGTH
      [] b.t = "nonce" -> NONCE_LENGTH
      [] b.t = "key" -> KEY_LENGTH
      [] b.t = "zero" -> b.len
      [] b.t = "tag" -> TAG_LENGTH
      [] b.t = "ct" -> ByteLen(b.p)
      [] b.t = "flip" -> ByteLen(b.of)

\* PBKDF2-HMAC-SHA256 with a fixed iteration count and a 32-byte output: a
\* function of (password, salt), taken to be injective.
derive_key(password, salt) == [t |-> "key", pw |-> password, salt |-> salt]

\* seal_in_place_append_tag under `key` and `nonce`, split into ciphertext and tag.
GcmCiphertext(key, nonce, plaintext) == [t |-> "ct", k |-> key, n |-> nonce, p |-> plaintext]
GcmTag(key, nonce, plaintext) == [t |-> "tag", k |-> key, n |-> nonce, p |-> plaintext]

\* encrypt_aes256gcm that returns another iv than the nonce it sealed under.
encrypt_aes256gcm_OtherIv(plaintext, key, nonce) ==
    IF ByteLen(key) # KEY_LENGTH THEN Err("InvalidKey")
    ELSE Ok([ciphertext |-> GcmCiphertext(key, NonceBytes(nonce), plaintext),
             iv |-> NonceBytes(0),
             auth_tag |-> GcmTag(key, NonceBytes(nonce), plaintext)])

encrypt_aes256gcm(plaintext, key, nonce) ==
    IF ByteLen(key) # KEY_LENGTH THEN Err("InvalidKey")
    ELSE Ok([ciphertext |-> GcmCiphertext(key, NonceBytes(nonce), plaintext),
             iv |-> NonceBytes(nonce),
             auth_tag |-> GcmTag(key, NonceBytes(nonce), plaintext)])

\* open_in_place: the tag authenticates (key, nonce, ciphertext).
GcmOpens(encrypted, key) ==
    /\ encrypted.ciphertext.t = "ct"
    /\ encrypted.ciphertext.k = key
    /\ encrypted.ciphertext.n = encrypted.iv
    /\ encrypted.auth_tag = GcmTag(key, encrypted.iv, encrypted.ciphertext.p)

\* decrypt_aes256gcm that returns the bytes under the ciphertext without
\* checking the tag.
decrypt_aes256gcm_IgnoresTag(encrypted, key) ==
    IF ByteLen(key) # KEY_LENGTH THEN Err("InvalidKey")
    ELSE IF ByteLen(encrypted.iv) # NONCE_LENGTH THEN Err("Decryption: IV must be 12 bytes")
    ELSE IF ByteLen(encrypted.auth_tag) # TAG_LENGTH
         THEN Err("Decryption: Auth tag must be 16 bytes")
    ELSE IF encrypted.ciphertext.t = "ct" /\ encrypted.ciphertext.k = key
         THEN Ok(encrypted.ciphertext.p)
    ELSE Err("Decryption failed: invalid key or corrupted data")

\* decrypt_aes256gcm that hands every input to the cipher.
decrypt_aes256gcm_NoLengthChecks(encrypted, key) ==
    IF GcmOpens(encrypted, key) THEN Ok(encrypted.ciphertext.p)
    ELSE Err("Decryption failed: invalid key or corrupted data")

decrypt_aes256gcm(encrypted, key) ==
    IF ByteLen(key) # KEY_LENGTH THEN Err("InvalidKey")
    ELSE IF ByteLen(encrypted.iv) # NONCE_LENGTH THEN Err("Decryption: IV must be 12 bytes")
    ELSE IF ByteLen(encrypted.auth_tag) # TAG_LENGTH
         THEN Err("Decryption: Auth tag must be 16 bytes")
    ELSE IF GcmOpens(encrypted, key) THEN Ok(encrypted.ciphertext.p)
    ELSE Err("Decryption failed: invalid key or corrupted data")

\* zeroize(): the same number of bytes, all zero.
zeroize_memory(data) == [t |-> "zero", len |-> ByteLen(data)]

\* ----------------------------------------------------- password_manager.rs
MASTER_KEY_SALT_KEY == RowId("gitbrowser_master_salt")
MASTER_KEY_VERIFY_KEY == RowId("gitbrowser_master_verify")
MASTER_KEY_VERIFY_PLAINTEXT == Bytes("gitbrowser-master-key-verify-v1")

\* SQL: id LIKE 'gitbrowser_%' over the ids of the model.
LikeGitbrowser(id) ==
    id.t = "id" /\ id.s \in {"gitbrowser_master_salt", "gitbrowser_master_verify"}

\* INSERT OR REPLACE of one row.
Upsert(table, id, row) ==
    [k \in (DOMAIN table) \cup {id} |-> IF k = id THEN row ELSE table[k]]
\* DELETE of one row.
\* A DELETE without its WHERE clause.
Remove_EveryRow(table, id) == [k \in {} |-> table[k]]

Remove(table, id) == [k \in (DOMAIN table) \ {id} |-> table[k]]

CredRow(url, username, enc, created, updated) ==
    [url |-> url, username |-> username,
     encrypted_password |-> enc.ciphertext, iv |-> enc.iv, auth_tag |-> enc.auth_tag,
     created_at |-> created, updated_at |-> updated]

\* A CredentialEntry: the row with its id.
Entry(table, id) ==
    [id |-> id, url |-> table[id].url, username |-> table[id].username,
     encrypted_password |-> table[id].encrypted_password, iv |-> table[id].iv,
     auth_tag |-> table[id].auth_tag,
     created_at |-> table[id].created_at, updated_at |-> table[id].updated_at]

EncryptedOf(r) ==
    [ciphertext |-> r.encrypted_password, iv |-> r.iv, auth_tag |-> r.auth_tag]

\* get_or_create_master_salt that writes a new salt on every call.
get_or_create_master_salt_AlwaysNew(creds, fresh_salt, now_ts) ==
    [db |-> [k \in (DOMAIN creds) \cup {RowId("gitbrowser_master_salt")} |->
               IF k = RowId("gitbrowser_master_salt")
               THEN [url |-> "", username |-> "", encrypted_password |-> fresh_salt,
                     iv |-> Bytes(""), auth_tag |-> Bytes(""),
                     created_at |-> now_ts, updated_at |-> now_ts]
               ELSE creds[k]],
     salt |-> fresh_salt]

\* Reads the salt row, or inserts `fresh_salt` (INSERT OR IGNORE) when there is none.
get_or_create_master_salt(creds, fresh_salt, now_ts) ==
    IF MASTER_KEY_SALT_KEY \in DOMAIN creds
    THEN [db |-> creds, salt |-> creds[MASTER_KEY_SALT_KEY].encrypted_password]
    ELSE [db |-> Upsert(creds, MASTER_KEY_SALT_KEY,
                        [url |-> "", username |-> "",
                         encrypted_password |-> fresh_salt, iv |-> EmptyBytes,
                         auth_tag |-> EmptyBytes,
                         created_at |-> now_ts, updated_at |-> now_ts]),
          salt |-> fresh_salt]

get_verification_token(creds) ==
    IF MASTER_KEY_VERIFY_KEY \in DOMAIN creds
    THEN Some(EncryptedOf(creds[MASTER_KEY_VERIFY_KEY]))
    ELSE NONE

store_verification_token(creds, encrypted, now_ts) ==
    Upsert(creds, MASTER_KEY_VERIFY_KEY, CredRow("", "", encrypted, now_ts, now_ts))

\* Ok(key) when a key is held, the locked error otherwise.
require_unlocked(derived_key) ==
    IF derived_key = NONE THEN Err("InvalidKey: Password manager is locked")
    ELSE Ok(derived_key.v)

\* Each operation yields the table, the held key and the result it leaves.
PmOut(creds, derived_key, res) == [db |-> creds, key |-> derived_key, res |-> res]

\* unlock with the candidate key assigned before it is verified.
unlock_AssignsBeforeVerify(creds, derived_key, master_password, fresh_salt, nonce, now_ts, verify_ts) ==
    LET s == get_or_create_master_salt(creds, fresh_salt, now_ts)
        key == derive_key(master_password, s.salt)
        verify_token == get_verification_token(s.db)
    IN  IF verify_token # NONE
        THEN LET d == decrypt_aes256gcm(verify_token.v, key)
             IN  IF d.ok /\ d.v = MASTER_KEY_VERIFY_PLAINTEXT
                 THEN PmOut(s.db, Some(key), Ok(Bool(TRUE)))
                 ELSE PmOut(s.db, Some(key), Ok(Bool(FALSE)))
        ELSE PmOut(store_verification_token(
                       s.db, encrypt_aes256gcm(MASTER_KEY_VERIFY_PLAINTEXT, key, nonce).v, verify_ts),
                   Some(key), Ok(Bool(TRUE)))

\* unlock that never checks the verification token.
unlock_SkipsVerify(creds, derived_key, master_password, fresh_salt, nonce, now_ts, verify_ts) ==
    LET s == get_or_create_master_salt(creds, fresh_salt, now_ts)
        key == derive_key(master_password, s.salt)
    IN  IF get_verification_token(s.db) # NONE
        THEN PmOut(s.db, Some(key), Ok(Bool(TRUE)))
        ELSE PmOut(store_verification_token(
                       s.db, encrypt_aes256gcm(MASTER_KEY_VERIFY_PLAINTEXT, key, nonce).v, verify_ts),
                   Some(key), Ok(Bool(TRUE)))

unlock(creds, derived_key, master_password, fresh_salt, nonce, now_ts, verify_ts) ==
    LET s == get_or_create_master_salt(creds, fresh_salt, now_ts)
        key == derive_key(master_password, s.salt)
        verify_token == get_verification_token(s.db)
    IN  IF verify_token # NONE
        THEN LET d == decrypt_aes256gcm(verify_token.v, key)
             IN  IF d.ok
                 THEN IF d.v = MASTER_KEY_VERIFY_PLAINTEXT
                      THEN PmOut(s.db, Some(key), Ok(Bool(TRUE)))
                      ELSE PmOut(s.db, derived_key, Ok(Bool(FALSE)))
                 ELSE PmOut(s.db, derived_key, Ok(Bool(FALSE)))
        ELSE LET e == encrypt_aes256gcm(MASTER_KEY_VERIFY_PLAINTEXT, key, nonce)
             IN  IF ~e.ok THEN PmOut(s.db, derived_key, e)
                 ELSE PmOut(store_verification_token(s.db, e.v, verify_ts),
                            Some(key), Ok(Bool(TRUE)))

\* lock that leaves the held key where it is.
lock_KeepsKey(derived_key) == derived_key

\* The held key buffer after zeroize_memory, just before the field is dropped.
lock_zeroize(derived_key) ==
    IF derived_key # NONE THEN Some(zeroize_memory(derived_key.v)) ELSE NONE

\* The key bytes are zeroed in place, then the field is set to None.
lock(derived_key) == LET zeroed == lock_zeroize(derived_key) IN NONE

is_unlocked(derived_key) == derived_key # NONE

get_derived_key(derived_key) == derived_key

save_credential(creds, derived_key, url, username, password, id, nonce, now_ts) ==
    LET k == require_unlocked(derived_key)
    IN  IF ~k.ok THEN PmOut(creds, derived_key, k)
        ELSE LET e == encrypt_aes256gcm(Bytes(password), k.v, nonce)
             IN  IF ~e.ok THEN PmOut(creds, derived_key, e)
                 ELSE IF id \in DOMAIN creds
                      THEN PmOut(creds, derived_key, Err("Encryption"))
                      ELSE PmOut(Upsert(creds, id, CredRow(url, username, e.v, now_ts, now_ts)),
                                 derived_key, Ok(id))

\* A query without the id NOT LIKE 'gitbrowser_%' condition.
ListedIds_NoFilter(creds) == DOMAIN creds

\* The ids a query over the credentials table selects.
ListedIds(creds) == {id \in DOMAIN creds : ~LikeGitbrowser(id)}
IdsForUrl(creds, url) == {id \in ListedIds(creds) : creds[id].url = url}

\* The orders in which a query may return the rows `ids`: any order when
\* `by_updated` is false, updated_at descending (ties in any order) otherwise.
RowOrders(creds, ids, by_updated) ==
    {q \in [1..Cardinality(ids) -> ids] :
        /\ \A i, j \in DOMAIN q : i # j => q[i] # q[j]
        /\ by_updated =>
             \A i, j \in DOMAIN q : i < j => creds[q[i]].updated_at >= creds[q[j]].updated_at}

EntryList(creds, order) ==
    [t |-> "list", xs |-> [i \in DOMAIN order |-> Entry(creds, order[i])]]

get_credentials(creds, derived_key, url, order) ==
    LET k == require_unlocked(derived_key)
    IN  IF ~k.ok THEN k ELSE Ok(EntryList(creds, order))

list_all_credentials(creds, derived_key, order) ==
    LET k == require_unlocked(derived_key)
    IN  IF ~k.ok THEN k ELSE Ok(EntryList(creds, order))

\* String::from_utf8 of the opened bytes: every plaintext of the model is text.
decrypt_password(derived_key, entry) ==
    LET k == require_unlocked(derived_key)
    IN  IF ~k.ok THEN k ELSE decrypt_aes256gcm(EncryptedOf(entry), k.v)

\* UPDATE ... WHERE id = ?: no row, no change; two statements, each committed
\* on its own, the second after the first has been applied.  `failing` names
\* the statement the database refuses (conn.execute returns Err), if any.
update_credential(creds, derived_key, id, username, password, nonce, now_ts, failing) ==
    LET k == require_unlocked(derived_key)
        c1 == IF username # NONE /\ id \in DOMAIN creds
              THEN [creds EXCEPT ![id].username = username.v, ![id].updated_at = now_ts]
              ELSE creds
    IN  IF ~k.ok THEN PmOut(creds, derived_key, k)
        ELSE IF username # NONE /\ failing = "username"
             THEN PmOut(creds, derived_key, Err("Encryption"))
        ELSE IF password = NONE THEN PmOut(c1, derived_key, Ok(Unit))
        ELSE LET e == encrypt_aes256gcm(Bytes(password.v), k.v, nonce)
             IN  IF ~e.ok THEN PmOut(c1, derived_key, e)
                 ELSE IF failing = "password" THEN PmOut(c1, derived_key, Err("Encryption"))
                 ELSE IF id \in DOMAIN c1
                      THEN PmOut([c1 EXCEPT ![id].encrypted_password = e.v.ciphertext,
                                            ![id].iv = e.v.iv,
                                            ![id].auth_tag = e.v.auth_tag,
                                            ![id].updated_at = now_ts],
                                 derived_key, Ok(Unit))
                      ELSE PmOut(c1, derived_key, Ok(Unit))

\* delete_credential without require_unlocked.
delete_credential_NoLockCheck(creds, derived_key, id) ==
    IF id \in DOMAIN creds /\ ~LikeGitbrowser(id)
    THEN PmOut(Remove(creds, id), derived_key, Ok(Unit))
    ELSE PmOut(creds, derived_key, Ok(Unit))

delete_credential(creds, derived_key, id) ==
    LET k == require_unlocked(derived_key)
    IN  IF ~k.ok THEN PmOut(creds, derived_key, k)
        ELSE IF id \in DOMAIN creds /\ ~LikeGitbrowser(id)
             THEN PmOut(Remove(creds, id), derived_key, Ok(Unit))
             ELSE PmOut(creds, derived_key, Ok(Unit))

\* serde_json::to_vec of the entries, and serde_json::from_slice of bytes.
JsonOf(entries) == [t |-> "json", v |-> entries]
FromJson(bytes) == IF bytes.t = "json" THEN Ok(bytes.v) ELSE Err("Decryption")

\* The file export_encrypted writes: {"salt": ..., "data": EncryptedData}.
ArchiveFile(salt, data) == [t |-> "file", salt |-> salt, data |-> data]

\* An export that seals an empty list whatever the table holds.
export_encrypted_NoRows(creds, derived_key, file, master_password, order, export_salt, nonce) ==
    LET k == require_unlocked(derived_key)
    IN  IF ~k.ok THEN [file |-> file, res |-> k]
        ELSE LET json == JsonOf(EntryList(creds, <<>>))
                 export_key == derive_key(master_password, export_salt)
                 encrypted == encrypt_aes256gcm(json, export_key, nonce)
             IN  IF ~encrypted.ok THEN [file |-> file, res |-> encrypted]
                 ELSE [file |-> Some(ArchiveFile(export_salt, encrypted.v)), res |-> Ok(Unit)]

\* export_encrypted: the rows the query selects, in the order it returns
\* them, as JSON sealed under a key derived from master_password and a fresh
\* salt; `file` is what the path holds afterwards.
export_encrypted(creds, derived_key, file, master_password, order, export_salt, nonce) ==
    LET k == require_unlocked(derived_key)
    IN  IF ~k.ok THEN [file |-> file, res |-> k]
        ELSE LET json == JsonOf(EntryList(creds, order))
                 export_key == derive_key(master_password, export_salt)
                 encrypted == encrypt_aes256gcm(json, export_key, nonce)
             IN  IF ~encrypted.ok THEN [file |-> file, res |-> encrypted]
                 ELSE [file |-> Some(ArchiveFile(export_salt, encrypted.v)), res |-> Ok(Unit)]

\* INSERT OR REPLACE of the entries, one after the other.
RECURSIVE ImportRows(_, _)
ImportRows(creds, entries) ==
    IF Len(entries) = 0 THEN creds
    ELSE LET e == Head(entries)
         IN  ImportRows(Upsert(creds, e.id,
                               CredRow(e.url, e.username, EncryptedOf(e),
                                       e.created_at, e.updated_at)),
                        Tail(entries))

\* import_encrypted: the file is opened under a key derived from
\* master_password and the file's salt; its entries replace or add rows, each
\* INSERT committed on its own.  `failing` is the position of the entry whose
\* INSERT the database refuses (conn.execute returns Err), 0 for none.
import_encrypted(creds, derived_key, file, master_password, failing) ==
    LET k == require_unlocked(derived_key)
    IN  IF ~k.ok THEN PmOut(creds, derived_key, k)
        ELSE IF file = NONE THEN PmOut(creds, derived_key, Err("Decryption"))
        ELSE LET export_key == derive_key(master_password, file.v.salt)
                 json == decrypt_aes256gcm(file.v.data, export_key)
             IN  IF ~json.ok THEN PmOut(creds, derived_key, json)
                 ELSE LET entries == FromJson(json.v)
                      IN  IF ~entries.ok THEN PmOut(creds, derived_key, entries)
                          ELSE IF failing \in 1..Len(entries.v.xs)
                               THEN PmOut(ImportRows(creds,
                                                     SubSeq(entries.v.xs, 1, failing - 1)),
                                          derived_key, Err("Encryption"))
                          ELSE PmOut(ImportRows(creds, entries.v.xs), derived_key,
                                     Ok([t |-> "u32", n |-> Len(entries.v.xs)]))

\* --------------------------------------------------- github_integration.rs
GITHUB_KEY_PASSPHRASE == "gitbrowser-github-key-v1"
GITHUB_KEY_SALT == Bytes("gitbrowser-ghky")

\* A construction that never looks at the github_auth table.
GitHubIntegration_new_NeverCounts(auth) ==
    LET fallback_key == derive_key(GITHUB_KEY_PASSPHRASE, GITHUB_KEY_SALT)
    IN  [encryption_key |-> fallback_key,
         fallback_key |-> fallback_key,
         authenticated |-> FALSE]

\* The store after construction: the fallback key is the active key, and
\* `authenticated` is COUNT(*) > 0 over github_auth.
GitHubIntegration_new(auth) ==
    LET fallback_key == derive_key(GITHUB_KEY_PASSPHRASE, GITHUB_KEY_SALT)
    IN  [encryption_key |-> fallback_key,
         fallback_key |-> fallback_key,
         authenticated |-> auth # NONE]

AuthEncrypted(auth) ==
    [ciphertext |-> auth.encrypted_token, iv |-> auth.iv, auth_tag |-> auth.auth_tag]

\* rekey_token that reports a missing row as a failure.
rekey_token_NoRowIsAnError(auth, old_key, new_key, nonce) ==
    IF auth = NONE THEN [auth |-> auth, res |-> Err("AuthFailed")]
    ELSE LET decrypted == decrypt_aes256gcm(AuthEncrypted(auth), old_key)
         IN  IF ~decrypted.ok THEN [auth |-> auth, res |-> Err("AuthFailed")]
             ELSE LET re_encrypted == encrypt_aes256gcm(decrypted.v, new_key, nonce)
                  IN  IF ~re_encrypted.ok THEN [auth |-> auth, res |-> Err("AuthFailed")]
                      ELSE [auth |-> [auth EXCEPT !.encrypted_token = re_encrypted.v.ciphertext,
                                                  !.iv = re_encrypted.v.iv,
                                                  !.auth_tag = re_encrypted.v.auth_tag],
                            res |-> Ok(Unit)]

\* rekey_token that drops a row it cannot open.
rekey_token_DropsUnreadableRow(auth, old_key, new_key, nonce) ==
    IF auth = NONE THEN [auth |-> auth, res |-> Ok(Unit)]
    ELSE LET decrypted == decrypt_aes256gcm(AuthEncrypted(auth), old_key)
         IN  IF ~decrypted.ok THEN [auth |-> NONE, res |-> Err("AuthFailed")]
             ELSE LET re_encrypted == encrypt_aes256gcm(decrypted.v, new_key, nonce).v
                  IN  [auth |-> [auth EXCEPT !.encrypted_token = re_encrypted.ciphertext,
                                             !.iv = re_encrypted.iv,
                                             !.auth_tag = re_encrypted.auth_tag],
                       res |-> Ok(Unit)]

\* Re-encrypts the 'default' row from old_key to new_key; no row is a success.
rekey_token(auth, old_key, new_key, nonce) ==
    IF auth = NONE THEN [auth |-> auth, res |-> Ok(Unit)]
    ELSE LET decrypted == decrypt_aes256gcm(AuthEncrypted(auth), old_key)
         IN  IF ~decrypted.ok THEN [auth |-> auth, res |-> Err("AuthFailed")]
             ELSE LET re_encrypted == encrypt_aes256gcm(decrypted.v, new_key, nonce)
                  IN  IF ~re_encrypted.ok THEN [auth |-> auth, res |-> Err("AuthFailed")]
                      ELSE [auth |-> [auth EXCEPT !.encrypted_token = re_encrypted.v.ciphertext,
                                                  !.iv = re_encrypted.v.iv,
                                                  !.auth_tag = re_encrypted.v.auth_tag],
                            res |-> Ok(Unit)]

\* rekey_with_master that always opens the row under the fallback key.
rekey_with_master_FromFallback(auth, store, master_key, nonce) ==
    LET r == rekey_token(auth, store.fallback_key, master_key, nonce)
    IN  IF ~r.res.ok THEN [auth |-> r.auth, store |-> store, res |-> r.res]
        ELSE [auth |-> r.auth,
              store |-> [store EXCEPT !.encryption_key = master_key],
              res |-> Ok(Unit)]

\* rekey_with_master that re-encrypts the row and keeps the old active key.
rekey_with_master_KeepsOldKey(auth, store, master_key, nonce) ==
    LET r == rekey_token(auth, store.encryption_key, master_key, nonce)
    IN  [auth |-> r.auth, store |-> store, res |-> r.res]

\* rekey_token(current key -> master_key)?; then the active key becomes master_key.
rekey_with_master(auth, store, master_key, nonce) ==
    LET r == rekey_token(auth, store.encryption_key, master_key, nonce)
    IN  IF ~r.res.ok THEN [auth |-> r.auth, store |-> store, res |-> r.res]
        ELSE [auth |-> r.auth,
              store |-> [store EXCEPT !.encryption_key = master_key],
              res |-> Ok(Unit)]

\* store_token as an INSERT OR IGNORE: a row that is there stays.
store_token_KeepsFirstRow(auth, store, token, login, avatar_url, nonce, now_ts) ==
    LET encrypted == encrypt_aes256gcm(Bytes(token), store.encryption_key, nonce)
    IN  IF ~encrypted.ok THEN [auth |-> auth, res |-> Err("AuthFailed")]
        ELSE IF auth # NONE THEN [auth |-> auth, res |-> Ok(Unit)]
        ELSE [auth |-> [t |-> "row",
                        encrypted_token |-> encrypted.v.ciphertext,
                        iv |-> encrypted.v.iv,
                        auth_tag |-> encrypted.v.auth_tag,
                        login |-> login, avatar_url |-> avatar_url,
                        updated_at |-> now_ts],
              res |-> Ok(Unit)]

\* store_token that writes the token bytes as they are.
store_token_Plaintext(auth, store, token, login, avatar_url, nonce, now_ts) ==
    [auth |-> [t |-> "row", encrypted_token |-> Bytes(token),
               iv |-> NonceBytes(nonce), auth_tag |-> EmptyBytes,
               login |-> login, avatar_url |-> avatar_url, updated_at |-> now_ts],
     res |-> Ok(Unit)]

store_token(auth, store, token, login, avatar_url, nonce, now_ts) ==
    LET encrypted == encrypt_aes256gcm(Bytes(token), store.encryption_key, nonce)
    IN  IF ~encrypted.ok THEN [auth |-> auth, res |-> Err("AuthFailed")]
        ELSE [auth |-> [t |-> "row",
                        encrypted_token |-> encrypted.v.ciphertext,
                        iv |-> encrypted.v.iv,
                        auth_tag |-> encrypted.v.auth_tag,
                        login |-> login, avatar_url |-> avatar_url,
                        updated_at |-> now_ts],
              res |-> Ok(Unit)]

get_token(auth, store) ==
    IF auth = NONE THEN Ok(NONE)
    ELSE LET decrypted == decrypt_aes256gcm(AuthEncrypted(auth), store.encryption_key)
         IN  IF ~decrypted.ok THEN Err("AuthFailed") ELSE Ok(Some(decrypted.v))

\* DELETE FROM github_auth (and github_sync, which nothing here writes).
\* logout that also goes back to the fallback key.
logout_ResetsKey(auth, store) ==
    [auth |-> NONE,
     store |-> [store EXCEPT !.authenticated = FALSE, !.encryption_key = store.fallback_key],
     res |-> Ok(Unit)]

\* logout that deletes the row and leaves `authenticated` as it was.
logout_KeepsFlag(auth, store) == [auth |-> NONE, store |-> store, res |-> Ok(Unit)]

logout(auth, store) ==
    [auth |-> NONE, store |-> [store EXCEPT !.authenticated = FALSE], res |-> Ok(Unit)]

is_authenticated(store) == store.authenticated

encrypt_for_sync(store, data, nonce) ==
    LET e == encrypt_aes256gcm(data, store.encryption_key, nonce)
    IN  IF ~e.ok THEN Err("ApiError") ELSE e

decrypt_from_sync(store, encrypted) ==
    LET d == decrypt_aes256gcm(encrypted, store.encryption_key)
    IN  IF ~d.ok THEN Err("ApiError") ELSE d

\* --------------------------------------------------------- ai_assistant.rs
AI_KEY_PASSPHRASE == "gitbrowser-ai-key-v1"
AI_KEY_SALT == Bytes("gitbrowser-aiky")

AIAssistant_new == [encryption_key |-> derive_key(AI_KEY_PASSPHRASE, AI_KEY_SALT)]

\* format!("ai_key_{}", provider)
AiKeyId(provider) == [t |-> "ai_key", s |-> provider]

\* INSERT OR REPLACE of the provider's row into the credentials table.
set_api_key(creds, assistant, provider, api_key, nonce, now_ts) ==
    LET encrypted == encrypt_aes256gcm(Bytes(api_key), assistant.encryption_key, nonce)
    IN  IF ~encrypted.ok THEN [db |-> creds, res |-> encrypted]
        ELSE [db |-> Upsert(creds, AiKeyId(provider),
                            CredRow("", provider, encrypted.v, now_ts, now_ts)),
              res |-> Ok(Unit)]

get_api_key(creds, assistant, provider) ==
    IF AiKeyId(provider) \notin DOMAIN creds THEN Ok(NONE)
    ELSE LET d == decrypt_aes256gcm(EncryptedOf(creds[AiKeyId(provider)]),
                                    assistant.encryption_key)
         IN  IF ~d.ok THEN d ELSE Ok(Some(d.v))

\* AIAssistant::rekey_with_master, after the rekey of section 4.4: every
\* provider row is opened under the active key and sealed under master_key,
\* then the active key becomes master_key; a row that does not open is an
\* error that leaves rows and key as they were.
ai_rekey_with_master(creds, assistant, master_key, nonce) ==
    LET ids == {id \in DOMAIN creds : id.t = "ai_key"}
        opened == [id \in ids |->
                     decrypt_aes256gcm(EncryptedOf(creds[id]), assistant.encryption_key)]
    IN  IF \E id \in ids : ~opened[id].ok
        THEN [db |-> creds, assistant |-> assistant, res |-> Err("Decryption")]
        ELSE [db |-> [id \in DOMAIN creds |->
                        IF id \in ids
                        THEN LET e == encrypt_aes256gcm(opened[id].v, master_key, nonce).v
                             IN  [creds[id] EXCEPT !.encrypted_password = e.ciphertext,
                                                   !.iv = e.iv, !.auth_tag = e.auth_tag]
                        ELSE creds[id]],
              assistant |-> [assistant EXCEPT !.encryption_key = master_key],
              res |-> Ok(Unit)]

\* -------------------------------------------------------------------- state
VARIABLES
    credentials,   \* table credentials: id -> row
    github_auth,   \* table github_auth: NONE or its 'default' row
    secure_store,  \* table secure_store: key -> row
    derived_key,   \* PasswordManager.derived_key: NONE or Some(key)
    github,        \* GitHubIntegration: encryption_key, fallback_key, authenticated
    assistant,     \* AIAssistant: encryption_key
    clock,         \* the system clock, in seconds
    rng,           \* requests that drew random bytes so far
    ops,           \* requests handled so far
    budget,        \* requests this behaviour handles at most
    ret,           \* the last request: method, arguments, result, rekey outcome
    committed,     \* history: the password of the first-time unlock, or NONE
    saved,         \* history: id -> the entry and password of a save_credential,
                   \*          and whether the vault was locked since
    token,         \* history: the token of the store_token still in the row, or NONE
    rekeyed,       \* history: a rekey re-encrypted that row under the master key
    stored,        \* history: key -> the value of the secret.store still in the row,
                   \*          whether the vault was Unlocked then, and locked since
    archive,       \* the file export_encrypted writes and import_encrypted reads, or NONE
    app_mutex,     \* Mutex<App>: NONE, or Some(t) while request thread t holds the guard
    pc             \* request thread -> where its handler stands, with its locals

vars == <<credentials, github_auth, secure_store, derived_key, github, assistant, clock, rng,
          ops, budget, ret, committed, saved, token, rekeyed, stored, archive, app_mutex, pc>>

EmptyTable == [k \in {} |-> NONE]

Ret(op, arg, res, rekey) == [op |-> op, arg |-> arg, res |-> res, rekey |-> rekey]

\* A new database file and a new process.
\* A thread that is in no handler.
Idle == [at |-> "idle"]

Start(requests, now) ==
    /\ budget = requests
    /\ credentials = EmptyTable
    /\ github_auth = NONE
    /\ secure_store = EmptyTable
    /\ derived_key = NONE
    /\ github = GitHubIntegration_new(NONE)
    /\ assistant = AIAssistant_new
    /\ clock = now
    /\ rng = 0
    /\ ops = 0
    /\ ret = Ret("init", NONE, Ok(Unit), "none")
    /\ committed = NONE
    /\ saved = EmptyTable
    /\ token = NONE
    /\ rekeyed = FALSE
    /\ stored = EmptyTable
    /\ archive = NONE
    /\ app_mutex = NONE
    /\ pc = [t \in Threads |-> Idle]

\* A Mutex that lets a thread in while another holds the guard.
app_lock_NotExclusive(holder) == TRUE

\* app.lock(): the call returns once no thread holds the guard.
app_lock(holder) == holder = NONE

\* The k-th random value (k in 1..4) drawn by the request being handled.
Fresh(k) == 4 * rng + k

\* ------------------------------------------------------------ rpc_handler.rs
\* Every request is counted, and so is one that drew random bytes; the clock
\* is read, never set, by a request: a request that reads it a second time
\* ends at that later reading.
RequestUntil(drew, later) ==
    /\ ops < budget
    /\ app_lock(app_mutex)
    /\ ops' = ops + 1
    /\ rng' = IF drew THEN rng + 1 ELSE rng
    /\ clock' = later
    /\ UNCHANGED <<budget, app_mutex, pc>>

\* A request that reads the clock once.
Request(drew) == RequestUntil(drew, clock)

\* The readings chrono::Utc::now() can give store_verification_token in an
\* unlock whose first reading (for the salt row) was the clock: the same second
\* or, the key derivation taking its time in between, a later one.  An unlock
\* that finds the token stores none and reads no further.
VerifyReadings(creds) ==
    IF get_verification_token(creds) = NONE THEN clock..MaxClock ELSE {clock}

\* password.unlock that gives up the rekey of the AI assistant when the rekey
\* of the GitHub store failed.
PasswordUnlock_StopsAtFailedRekey(master_password) ==
    \E verify_ts \in VerifyReadings(credentials) :
        LET u == unlock(credentials, derived_key, master_password,
                        SaltBytes(Fresh(1)), Fresh(2), clock, verify_ts)
            ok == u.res.ok /\ u.res.v = Bool(TRUE)
            r == IF ok /\ get_derived_key(u.key) # NONE
                 THEN rekey_with_master(github_auth, github, get_derived_key(u.key).v, Fresh(3))
                 ELSE [auth |-> github_auth, store |-> github, res |-> NONE]
            a == IF ok /\ get_derived_key(u.key) # NONE /\ r.res.ok
                 THEN ai_rekey_with_master(u.db, assistant, get_derived_key(u.key).v, Fresh(4))
                 ELSE [db |-> u.db, assistant |-> assistant, res |-> NONE]
        IN  /\ RequestUntil(a.db # credentials \/ r.auth # github_auth, verify_ts)
            /\ credentials' = a.db
            /\ assistant' = a.assistant
            /\ derived_key' = u.key
            /\ github_auth' = r.auth
            /\ github' = r.store
            /\ ret' = Ret("password.unlock",
                          [pw |-> master_password, again |-> is_unlocked(derived_key)], u.res,
                          IF r.res = NONE THEN "none" ELSE IF r.res.ok THEN "ok" ELSE "err")
            /\ committed' = IF committed = NONE /\ ok THEN Some(Bytes(master_password))
                            ELSE committed
            /\ rekeyed' = (rekeyed \/ (github_auth # NONE /\ r.res # NONE /\ r.res.ok))
            /\ UNCHANGED <<secure_store, saved, token, stored, archive>>

\* password.unlock: unlock, and on true the rekey of the GitHub store and of
\* the AI assistant, whose results are dropped (let _ =).  The record of the
\* request keeps whether the vault was Unlocked when the request came in.
PasswordUnlock(master_password) ==
    \E verify_ts \in VerifyReadings(credentials) :
        LET u == unlock(credentials, derived_key, master_password,
                        SaltBytes(Fresh(1)), Fresh(2), clock, verify_ts)
            ok == u.res.ok /\ u.res.v = Bool(TRUE)
            r == IF ok /\ get_derived_key(u.key) # NONE
                 THEN rekey_with_master(github_auth, github, get_derived_key(u.key).v, Fresh(3))
                 ELSE [auth |-> github_auth, store |-> github, res |-> NONE]
            a == IF ok /\ get_derived_key(u.key) # NONE
                 THEN ai_rekey_with_master(u.db, assistant, get_derived_key(u.key).v, Fresh(4))
                 ELSE [db |-> u.db, assistant |-> assistant, res |-> NONE]
        IN  /\ RequestUntil(a.db # credentials \/ r.auth # github_auth, verify_ts)
            /\ credentials' = a.db
            /\ assistant' = a.assistant
            /\ derived_key' = u.key
            /\ github_auth' = r.auth
            /\ github' = r.store
            /\ ret' = Ret("password.unlock",
                          [pw |-> master_password, again |-> is_unlocked(derived_key)], u.res,
                          IF r.res = NONE THEN "none" ELSE IF r.res.ok THEN "ok" ELSE "err")
            /\ committed' = IF committed = NONE /\ ok THEN Some(Bytes(master_password))
                            ELSE committed
            /\ rekeyed' = (rekeyed \/ (github_auth # NONE /\ r.res # NONE /\ r.res.ok))
            /\ UNCHANGED <<secure_store, saved, token, stored, archive>>

PasswordLock ==
    /\ Request(FALSE)
    /\ derived_key' = lock(derived_key)
    /\ ret' = Ret("password.lock", NONE, Ok(Bool(TRUE)), "none")
    /\ saved' = [id \in DOMAIN saved |-> [saved[id] EXCEPT !.relocked = TRUE]]
    /\ stored' = [k \in DOMAIN stored |-> [stored[k] EXCEPT !.relocked = TRUE]]
    /\ UNCHANGED <<assistant, credentials, github_auth, secure_store, github, committed, token,
                   rekeyed, archive>>

\* The process exits and starts again: App::new over the same database file.
Restart ==
    /\ Request(FALSE)
    /\ derived_key' = NONE
    /\ github' = GitHubIntegration_new(github_auth)
    /\ assistant' = AIAssistant_new
    /\ ret' = Ret("restart", NONE, Ok(Unit), "none")
    /\ saved' = [id \in DOMAIN saved |-> [saved[id] EXCEPT !.relocked = TRUE]]
    /\ stored' = [k \in DOMAIN stored |-> [stored[k] EXCEPT !.relocked = TRUE]]
    /\ UNCHANGED <<credentials, github_auth, secure_store, committed, token, rekeyed, archive>>

\* The process is started on another database file, as on another machine:
\* every table is empty and the stores are constructed anew, while the file
\* export_encrypted wrote stays at its path.
NewVault ==
    /\ Request(FALSE)
    /\ archive # NONE
    /\ credentials' = EmptyTable
    /\ github_auth' = NONE
    /\ secure_store' = EmptyTable
    /\ derived_key' = NONE
    /\ github' = GitHubIntegration_new(NONE)
    /\ assistant' = AIAssistant_new
    /\ ret' = Ret("new_vault", NONE, Ok(Unit), "none")
    /\ committed' = NONE
    /\ saved' = [id \in DOMAIN saved |-> [saved[id] EXCEPT !.relocked = TRUE]]
    /\ token' = NONE
    /\ rekeyed' = FALSE
    /\ stored' = EmptyTable
    /\ UNCHANGED archive

\* A second passes.
Tick ==
    /\ clock < MaxClock
    /\ clock' = clock + 1
    /\ UNCHANGED <<assistant, credentials, github_auth, secure_store, derived_key, github, rng,
                   ops, budget, ret, committed, saved, token, rekeyed, stored, archive,
                   app_mutex, pc>>

\* encrypt_aes256gcm called on its own.
Encrypt(plaintext, key) ==
    /\ Request(TRUE)
    /\ ret' = Ret("encrypt_aes256gcm", [plaintext |-> plaintext, key |-> key],
                  encrypt_aes256gcm(plaintext, key, Fresh(1)), "none")
    /\ UNCHANGED <<assistant, credentials, github_auth, secure_store, derived_key, github,
                   committed, saved, token, rekeyed, stored, archive>>

\* A byte string of the length of b that differs from it in the byte at `at`.
FlipByte(b, at) == [t |-> "flip", of |-> b, at |-> at]

\* The positions of b a test alters: its first and its last byte.
FlipPositions(b) == IF ByteLen(b) = 0 THEN {} ELSE {0, ByteLen(b) - 1}

\* The blobs made from `encrypted` by altering one byte of one field, or by
\* giving the iv or the tag another length; with the kind of the change.
Altered(encrypted) ==
    {[kind |-> "none", blob |-> encrypted]}
      \cup {[kind |-> "ciphertext",
              blob |-> [encrypted EXCEPT !.ciphertext = FlipByte(encrypted.ciphertext, i)]] :
                i \in FlipPositions(encrypted.ciphertext)}
      \cup {[kind |-> "iv", blob |-> [encrypted EXCEPT !.iv = FlipByte(encrypted.iv, i)]] :
                i \in FlipPositions(encrypted.iv)}
      \cup {[kind |-> "auth_tag",
              blob |-> [encrypted EXCEPT !.auth_tag = FlipByte(encrypted.auth_tag, i)]] :
                i \in FlipPositions(encrypted.auth_tag)}
      \cup {[kind |-> "iv_length", blob |-> [encrypted EXCEPT !.iv = b]] : b \in WrongLengths}
      \cup {[kind |-> "tag_length", blob |-> [encrypted EXCEPT !.auth_tag = b]] :
                b \in WrongLengths}
      \cup {[kind |-> "both_lengths",
              blob |-> [encrypted EXCEPT !.iv = b, !.auth_tag = b]] : b \in WrongLengths}

\* decrypt_aes256gcm called on the blob the last encrypt_aes256gcm returned,
\* as it is or altered, with any key.
Decrypt(key) ==
    /\ ret.op = "encrypt_aes256gcm"
    /\ ret.res.ok
    /\ Request(FALSE)
    /\ \E a \in Altered(ret.res.v) :
         ret' = Ret("decrypt_aes256gcm",
                    [plaintext |-> ret.arg.plaintext, sealed_with |-> ret.arg.key,
                     altered |-> a.kind, blob |-> a.blob, key |-> key],
                    decrypt_aes256gcm(a.blob, key), "none")
    /\ UNCHANGED <<assistant, credentials, github_auth, secure_store, derived_key, github,
                   committed, saved, token, rekeyed, stored, archive>>

\* A password.list that answers with the whole entries.
ListResponse_WholeEntries(res) == res

\* The fields of a credential that password.list puts in its response.
ListResponse(res) ==
    IF ~res.ok THEN res
    ELSE Ok([t |-> "list",
             xs |-> [i \in DOMAIN res.v.xs |->
                       [id |-> res.v.xs[i].id, url |-> res.v.xs[i].url,
                        username |-> res.v.xs[i].username,
                        created_at |-> res.v.xs[i].created_at,
                        updated_at |-> res.v.xs[i].updated_at]]])

\* password.list: list_all_credentials for an empty url, get_credentials otherwise.
PasswordList(url) ==
    /\ Request(FALSE)
    /\ \E order \in IF url = "" THEN RowOrders(credentials, ListedIds(credentials), TRUE)
                    ELSE RowOrders(credentials, IdsForUrl(credentials, url), FALSE) :
         ret' = Ret("password.list", [url |-> url],
                    ListResponse(IF url = ""
                                 THEN list_all_credentials(credentials, derived_key, order)
                                 ELSE get_credentials(credentials, derived_key, url, order)),
                    "none")
    /\ UNCHANGED <<assistant, credentials, github_auth, secure_store, derived_key, github,
                   committed, saved, token, rekeyed, stored, archive>>

\* password.decrypt: list_all_credentials, find the id, decrypt_password.
PasswordDecrypt(id) ==
    /\ Request(FALSE)
    /\ LET k == require_unlocked(derived_key)
           res == IF ~k.ok THEN k
                  ELSE IF id \notin ListedIds(credentials) THEN Err("credential not found")
                  ELSE decrypt_password(derived_key, Entry(credentials, id))
       IN  ret' = Ret("password.decrypt", [id |-> id], res, "none")
    /\ UNCHANGED <<assistant, credentials, github_auth, secure_store, derived_key, github,
                   committed, saved, token, rekeyed, stored, archive>>

\* decrypt_password called with an entry the caller kept from an earlier save.
DecryptPassword(id) ==
    /\ Request(FALSE)
    /\ id \in DOMAIN saved
    /\ ret' = Ret("decrypt_password", [id |-> id],
                  decrypt_password(derived_key, saved[id].entry), "none")
    /\ UNCHANGED <<assistant, credentials, github_auth, secure_store, derived_key, github,
                   committed, saved, token, rekeyed, stored, archive>>

\* password.save; the id is a fresh v4 uuid.
PasswordSave(url, username, password) ==
    LET id == Uuid(Fresh(1))
        o == save_credential(credentials, derived_key, url, username, password,
                             id, Fresh(2), clock)
    IN  /\ Request(o.res.ok)
        /\ credentials' = o.db
        /\ derived_key' = o.key
        /\ ret' = Ret("password.save", [url |-> url], o.res, "none")
        /\ saved' = IF o.res.ok
                    THEN Upsert(saved, id, [entry |-> Entry(o.db, id),
                                            password |-> Bytes(password),
                                            relocked |-> FALSE])
                    ELSE saved
        /\ UNCHANGED <<assistant, github_auth, secure_store, github, committed, token, rekeyed, stored, archive>>

PasswordUpdate(id, username, password, failing) ==
    LET o == update_credential(credentials, derived_key, id, username, password,
                               Fresh(1), clock, failing)
    IN  /\ Request(derived_key # NONE /\ password # NONE
                   /\ ~(username # NONE /\ failing = "username"))
        /\ credentials' = o.db
        /\ derived_key' = o.key
        /\ ret' = Ret("password.update",
                      [id |-> id, username |-> username, password |-> password], o.res, "none")
        /\ UNCHANGED <<assistant, github_auth, secure_store, github, committed, saved, token, rekeyed, stored, archive>>

PasswordDelete(id) ==
    LET o == delete_credential(credentials, derived_key, id)
    IN  /\ Request(FALSE)
        /\ credentials' = o.db
        /\ derived_key' = o.key
        /\ ret' = Ret("password.delete", [id |-> id], o.res, "none")
        /\ UNCHANGED <<assistant, github_auth, secure_store, github, committed, saved, token, rekeyed, stored, archive>>

\* get_credentials called by the host process with any url.
GetCredentials(url) ==
    /\ Request(FALSE)
    /\ \E order \in RowOrders(credentials, IdsForUrl(credentials, url), FALSE) :
         ret' = Ret("get_credentials", [url |-> url],
                    get_credentials(credentials, derived_key, url, order), "none")
    /\ UNCHANGED <<assistant, credentials, github_auth, secure_store, derived_key, github,
                   committed, saved, token, rekeyed, stored, archive>>

\* export_encrypted called by the host process; one path.
ExportEncrypted(master_password) ==
    /\ Request(is_unlocked(derived_key))
    /\ \E order \in RowOrders(credentials, ListedIds(credentials), FALSE) :
         LET o == export_encrypted(credentials, derived_key, archive, master_password,
                                   order, SaltBytes(Fresh(1)), Fresh(2))
         IN  /\ archive' = o.file
             /\ ret' = Ret("export_encrypted", [pw |-> master_password], o.res, "none")
    /\ UNCHANGED <<assistant, credentials, github_auth, secure_store, derived_key, github,
                   committed, saved, token, rekeyed, stored>>

\* import_encrypted called by the host process on the same path.
ImportEncrypted(master_password, failing) ==
    LET o == import_encrypted(credentials, derived_key, archive, master_password, failing)
    IN  /\ Request(FALSE)
        /\ credentials' = o.db
        /\ derived_key' = o.key
        /\ ret' = Ret("import_encrypted", [pw |-> master_password, failing |-> failing],
                      o.res, "none")
        /\ UNCHANGED <<assistant, github_auth, secure_store, github, committed, saved,
                       token, rekeyed, stored, archive>>

\* github.store_token; the record of the request keeps whether the 'default'
\* row was there before.
GithubStoreToken(tok, login) ==
    LET o == store_token(github_auth, github, tok, login, NONE, Fresh(1), clock)
    IN  /\ Request(TRUE)
        /\ github_auth' = o.auth
        /\ ret' = Ret("github.store_token",
                      [token |-> tok, replaced |-> github_auth # NONE], o.res, "none")
        /\ token' = IF o.res.ok THEN Some(Bytes(tok)) ELSE token
        /\ rekeyed' = (rekeyed /\ ~o.res.ok)
        /\ UNCHANGED <<assistant, credentials, secure_store, derived_key, github, committed,
                       saved, stored, archive>>

GithubGetToken ==
    /\ Request(FALSE)
    /\ ret' = Ret("github.get_token", NONE, get_token(github_auth, github), "none")
    /\ UNCHANGED <<assistant, credentials, github_auth, secure_store, derived_key, github,
                   committed, saved, token, rekeyed, stored, archive>>

GithubLogout ==
    LET o == logout(github_auth, github)
    IN  /\ Request(FALSE)
        /\ github_auth' = o.auth
        /\ github' = o.store
        /\ ret' = Ret("github.logout", NONE, o.res, "none")
        /\ token' = NONE
        /\ rekeyed' = FALSE
        /\ UNCHANGED <<assistant, credentials, secure_store, derived_key, committed, saved,
                       stored, archive>>

\* secret.store: the held master key when there is one, the GitHub store's
\* active key otherwise; uses_master from a second get_derived_key.
SecretStore(key, value) ==
    LET master_key == get_derived_key(derived_key)
        encrypted == IF master_key # NONE
                     THEN encrypt_aes256gcm(Bytes(value), master_key.v, Fresh(1))
                     ELSE encrypt_for_sync(github, Bytes(value), Fresh(1))
        uses_master == IF get_derived_key(derived_key) # NONE THEN 1 ELSE 0
    IN  /\ Request(TRUE)
        /\ IF ~encrypted.ok
           THEN /\ ret' = Ret("secret.store", [key |-> key], encrypted, "none")
                /\ UNCHANGED <<secure_store, stored>>
           ELSE /\ secure_store' = Upsert(secure_store, key,
                                          [ciphertext |-> encrypted.v.ciphertext,
                                           iv |-> encrypted.v.iv,
                                           auth_tag |-> encrypted.v.auth_tag,
                                           updated_at |-> clock,
                                           uses_master |-> uses_master])
                /\ ret' = Ret("secret.store", [key |-> key], Ok(Bool(TRUE)), "none")
                /\ stored' = Upsert(stored, key,
                                    [value |-> Bytes(value),
                                     unlocked |-> is_unlocked(derived_key),
                                     relocked |-> FALSE])
        /\ UNCHANGED <<assistant, credentials, github_auth, derived_key, github, committed,
                       saved, token, rekeyed, archive>>

\* secret.get that falls back to the GitHub store's key when the vault is Locked.
secret_get_TriesStoreKey(store_rows, held_key, store, key) ==
    IF key \notin DOMAIN store_rows THEN Ok(NONE)
    ELSE LET row == store_rows[key]
             encrypted == [ciphertext |-> row.ciphertext, iv |-> row.iv,
                           auth_tag |-> row.auth_tag]
             k == IF row.uses_master # 0 /\ get_derived_key(held_key) # NONE
                  THEN get_derived_key(held_key).v ELSE store.encryption_key
             d == decrypt_aes256gcm(encrypted, k)
         IN  IF ~d.ok THEN d ELSE Ok(Some(d.v))

\* secret.get that reports a missing row as the query's error.
secret_get_NoRowIsAnError(store_rows, held_key, store, key) ==
    IF key \notin DOMAIN store_rows THEN Err("Query returned no rows")
    ELSE LET row == store_rows[key]
             encrypted == [ciphertext |-> row.ciphertext, iv |-> row.iv,
                           auth_tag |-> row.auth_tag]
         IN  IF row.uses_master # 0
             THEN IF get_derived_key(held_key) # NONE
                  THEN LET d == decrypt_aes256gcm(encrypted, get_derived_key(held_key).v)
                       IN  IF ~d.ok THEN d ELSE Ok(Some(d.v))
                  ELSE Err("master password required to decrypt this secret")
             ELSE LET d == decrypt_from_sync(store, encrypted)
                  IN  IF ~d.ok THEN d ELSE Ok(Some(d.v))

\* The result of secret.get for `key` in the given state.
secret_get(store_rows, held_key, store, key) ==
    IF key \notin DOMAIN store_rows THEN Ok(NONE)
    ELSE LET row == store_rows[key]
             encrypted == [ciphertext |-> row.ciphertext, iv |-> row.iv,
                           auth_tag |-> row.auth_tag]
         IN  IF row.uses_master # 0
             THEN IF get_derived_key(held_key) # NONE
                  THEN LET d == decrypt_aes256gcm(encrypted, get_derived_key(held_key).v)
                       IN  IF ~d.ok THEN d ELSE Ok(Some(d.v))
                  ELSE Err("master password required to decrypt this secret")
             ELSE LET d == decrypt_from_sync(store, encrypted)
                  IN  IF ~d.ok THEN d ELSE Ok(Some(d.v))

SecretGet(key) ==
    /\ Request(FALSE)
    /\ ret' = Ret("secret.get", [key |-> key],
                  secret_get(secure_store, derived_key, github, key), "none")
    /\ UNCHANGED <<assistant, credentials, github_auth, secure_store, derived_key, github,
                   committed, saved, token, rekeyed, stored, archive>>

\* secret.delete; the record of the request keeps the uses_master of the row
\* the DELETE removed, if there was one.
SecretDelete(key) ==
    /\ Request(FALSE)
    /\ secure_store' = IF key \in DOMAIN secure_store THEN Remove(secure_store, key)
                       ELSE secure_store
    /\ ret' = Ret("secret.delete",
                  [key |-> key,
                   removed |-> IF key \in DOMAIN secure_store
                               THEN Some(secure_store[key].uses_master) ELSE NONE],
                  Ok(Bool(TRUE)), "none")
    /\ stored' = IF key \in DOMAIN stored THEN Remove(stored, key) ELSE stored
    /\ UNCHANGED <<assistant, credentials, github_auth, derived_key, github, committed, saved,
                   token, rekeyed, archive>>

\* github.encrypt_sync: encrypt_for_sync of the data under the active key.
GithubEncryptSync(data) ==
    /\ Request(TRUE)
    /\ ret' = Ret("github.encrypt_sync", [data |-> data],
                  encrypt_for_sync(github, Bytes(data), Fresh(1)), "none")
    /\ UNCHANGED <<assistant, credentials, github_auth, secure_store, derived_key, github,
                   committed, saved, token, rekeyed, stored, archive>>

\* The blobs a caller has at hand: what the last github.encrypt_sync returned
\* and what the secure_store rows hold.
SyncBlobs ==
    {[ciphertext |-> secure_store[k].ciphertext, iv |-> secure_store[k].iv,
      auth_tag |-> secure_store[k].auth_tag] : k \in DOMAIN secure_store}
      \cup (IF ret.op = "github.encrypt_sync" /\ ret.res.ok THEN {ret.res.v} ELSE {})

\* github.decrypt_sync: decrypt_from_sync of the blob under the active key.
GithubDecryptSync(encrypted) ==
    /\ Request(FALSE)
    /\ ret' = Ret("github.decrypt_sync", [encrypted |-> encrypted],
                  decrypt_from_sync(github, encrypted), "none")
    /\ UNCHANGED <<assistant, credentials, github_auth, secure_store, derived_key, github,
                   committed, saved, token, rekeyed, stored, archive>>

\* set_api_key and get_api_key, called by the host process.
SetApiKey(provider, api_key) ==
    LET o == set_api_key(credentials, assistant, provider, api_key, Fresh(1), clock)
    IN  /\ Request(TRUE)
        /\ credentials' = o.db
        /\ ret' = Ret("set_api_key", NONE, o.res, "none")
        /\ UNCHANGED <<assistant, github_auth, secure_store, derived_key, github,
                       committed, saved, token, rekeyed, stored, archive>>

GetApiKey(provider) ==
    /\ Request(FALSE)
    /\ ret' = Ret("get_api_key", NONE, get_api_key(credentials, assistant, provider), "none")
    /\ UNCHANGED <<assistant, credentials, github_auth, secure_store, derived_key, github,
                   committed, saved, token, rekeyed, stored, archive>>

\* ------------------------------------------------------------ specifications
\* The ids a request may name: the rows there are, the reserved names, and a
\* uuid no row has.
NamedIds == (DOMAIN credentials) \cup {MASTER_KEY_SALT_KEY, MASTER_KEY_VERIFY_KEY, Uuid(0)}
Opt(S) == {NONE} \cup {Some(x) : x \in S}
\* The UPDATE statement of an update_credential that the database refuses.
FailingStatements == {"none", "username", "password"}
\* The position of the INSERT of an import_encrypted that the database
\* refuses; 0 when it refuses none.
FailingInserts == {0, 1, 2}

\* The vault alone.
NextVault ==
    \/ \E pw \in MasterPasswords : PasswordUnlock(pw)
    \/ PasswordLock
    \/ Tick
    \/ \E url \in Urls \cup {""} : PasswordList(url)
    \/ \E id \in NamedIds : PasswordDecrypt(id)
    \/ \E id \in NamedIds : DecryptPassword(id)
    \/ \E url \in Urls, u \in Usernames, p \in SitePasswords : PasswordSave(url, u, p)
    \/ \E id \in NamedIds, u \in Opt(NewUsernames), p \in Opt(NewPasswords),
          failing \in FailingStatements :
         PasswordUpdate(id, u, p, failing)
    \/ \E id \in NamedIds : PasswordDelete(id)

\* The vault with its archive file.
NextArchive ==
    \/ \E pw \in MasterPasswords : PasswordUnlock(pw)
    \/ PasswordLock
    \/ \E url \in Urls, u \in Usernames, p \in SitePasswords : PasswordSave(url, u, p)
    \/ \E id \in NamedIds : PasswordDelete(id)
    \/ \E url \in Urls \cup {""} : PasswordList(url)
    \/ \E url \in Urls \cup {""} : GetCredentials(url)
    \/ \E pw \in MasterPasswords : ExportEncrypted(pw)
    \/ \E pw \in MasterPasswords, failing \in FailingInserts : ImportEncrypted(pw, failing)

\* ------------------------------------------- handlers, statement by statement
\* Thread t enters a handler: app.lock() returns the guard, which the handler
\* holds until it returns.
AcquireUntil(t, later) ==
    /\ ops < budget
    /\ pc[t] = Idle
    /\ app_lock(app_mutex)
    /\ ops' = ops + 1
    /\ rng' = rng + 1
    /\ clock' = later
    /\ UNCHANGED budget

\* A handler whose first statements read the clock once.
Acquire(t) == AcquireUntil(t, clock)

\* The k-th random value drawn by the request thread t is handling.
FreshOf(t, k) == 4 * pc[t].rng + k

\* password.unlock up to the return of password_manager.unlock; an unlock that
\* did not return true returns at once and drops the guard.
UnlockBegin(t, master_password) ==
    \E verify_ts \in VerifyReadings(credentials) :
        LET u == unlock(credentials, derived_key, master_password,
                        SaltBytes(Fresh(1)), Fresh(2), clock, verify_ts)
            ok == u.res.ok /\ u.res.v = Bool(TRUE)
        IN  /\ AcquireUntil(t, verify_ts)
            /\ credentials' = u.db
            /\ derived_key' = u.key
            /\ committed' = IF committed = NONE /\ ok THEN Some(Bytes(master_password))
                            ELSE committed
            /\ IF ok
               THEN /\ app_mutex' = Some(t)
                    /\ pc' = [pc EXCEPT ![t] = [at |-> "unlock.rekey_github", rng |-> rng,
                                                pw |-> master_password, res |-> u.res,
                                                again |-> is_unlocked(derived_key)]]
                    /\ UNCHANGED ret
               ELSE /\ ret' = Ret("password.unlock",
                                 [pw |-> master_password, again |-> is_unlocked(derived_key)],
                                 u.res, "none")
                    /\ UNCHANGED <<app_mutex, pc>>
            /\ UNCHANGED <<assistant, github_auth, secure_store, github, saved, token, rekeyed,
                           stored, archive>>

\* if let Some(master_key) = get_derived_key(), then
\* let _ = github_integration.rekey_with_master(&master_key).
UnlockRekeyGithub(t) ==
    /\ pc[t].at = "unlock.rekey_github"
    /\ LET master_key == get_derived_key(derived_key)
           r == IF master_key # NONE
                THEN rekey_with_master(github_auth, github, master_key.v, FreshOf(t, 3))
                ELSE [auth |-> github_auth, store |-> github, res |-> NONE]
       IN  /\ github_auth' = r.auth
           /\ github' = r.store
           /\ rekeyed' = (rekeyed \/ (github_auth # NONE /\ r.res # NONE /\ r.res.ok))
           /\ pc' = [pc EXCEPT ![t] = [at |-> "unlock.rekey_ai", rng |-> pc[t].rng,
                                       pw |-> pc[t].pw, res |-> pc[t].res,
                                       again |-> pc[t].again,
                                       master_key |-> master_key,
                                       rekey |-> IF r.res = NONE THEN "none"
                                                 ELSE IF r.res.ok THEN "ok" ELSE "err"]]
    /\ UNCHANGED <<assistant, credentials, secure_store, derived_key, clock, rng, ops, budget,
                   ret, committed, saved, token, stored, archive, app_mutex>>

\* let _ = ai_assistant.rekey_with_master(&master_key); the handler returns
\* and the guard is dropped.
UnlockRekeyAi(t) ==
    /\ pc[t].at = "unlock.rekey_ai"
    /\ LET a == IF pc[t].master_key # NONE
                THEN ai_rekey_with_master(credentials, assistant, pc[t].master_key.v,
                                          FreshOf(t, 4))
                ELSE [db |-> credentials, assistant |-> assistant, res |-> NONE]
       IN  /\ credentials' = a.db
           /\ assistant' = a.assistant
    /\ ret' = Ret("password.unlock", [pw |-> pc[t].pw, again |-> pc[t].again],
                  pc[t].res, pc[t].rekey)
    /\ app_mutex' = NONE
    /\ pc' = [pc EXCEPT ![t] = Idle]
    /\ UNCHANGED <<github_auth, secure_store, derived_key, github, clock, rng, ops, budget,
                   committed, saved, token, rekeyed, stored, archive>>

\* secret.store up to the encryption: the key is the vault's when
\* get_derived_key() is Some, the GitHub store's otherwise.
SecretStoreBegin(t, key, value) ==
    LET master_key == get_derived_key(derived_key)
        encrypted == IF master_key # NONE
                     THEN encrypt_aes256gcm(Bytes(value), master_key.v, Fresh(1))
                     ELSE encrypt_for_sync(github, Bytes(value), Fresh(1))
    IN  /\ Acquire(t)
        /\ IF ~encrypted.ok
           THEN /\ ret' = Ret("secret.store", [key |-> key], encrypted, "none")
                /\ UNCHANGED <<app_mutex, pc>>
           ELSE /\ app_mutex' = Some(t)
                /\ pc' = [pc EXCEPT ![t] = [at |-> "secret.store.insert", key |-> key,
                                            value |-> value, encrypted |-> encrypted.v]]
                /\ UNCHANGED ret
        /\ UNCHANGED <<assistant, credentials, github_auth, secure_store, derived_key, github,
                       committed, saved, token, rekeyed, stored, archive>>

\* secret.store from the second get_derived_key(), which sets uses_master, to
\* the INSERT OR REPLACE and the return.
SecretStoreInsert(t) ==
    /\ pc[t].at = "secret.store.insert"
    /\ LET uses_master == IF get_derived_key(derived_key) # NONE THEN 1 ELSE 0
       IN  /\ secure_store' = Upsert(secure_store, pc[t].key,
                                     [ciphertext |-> pc[t].encrypted.ciphertext,
                                      iv |-> pc[t].encrypted.iv,
                                      auth_tag |-> pc[t].encrypted.auth_tag,
                                      updated_at |-> clock,
                                      uses_master |-> uses_master])
           /\ stored' = Upsert(stored, pc[t].key,
                               [value |-> Bytes(pc[t].value),
                                unlocked |-> is_unlocked(derived_key),
                                relocked |-> FALSE])
    /\ ret' = Ret("secret.store", [key |-> pc[t].key], Ok(Bool(TRUE)), "none")
    /\ app_mutex' = NONE
    /\ pc' = [pc EXCEPT ![t] = Idle]
    /\ UNCHANGED <<assistant, credentials, github_auth, derived_key, github, clock, rng, ops,
                   budget, committed, saved, token, rekeyed, archive>>

\* Two threads calling handle_method on the one Mutex<App>.
NextMutex ==
    \/ \E t \in Threads, pw \in MasterPasswords : UnlockBegin(t, pw)
    \/ \E t \in Threads : UnlockRekeyGithub(t)
    \/ \E t \in Threads : UnlockRekeyAi(t)
    \/ \E t \in Threads, k \in SecretKeys, v \in SecretValues : SecretStoreBegin(t, k, v)
    \/ \E t \in Threads : SecretStoreInsert(t)
    \/ PasswordLock
    \/ \E k \in SecretKeys : SecretGet(k)
    \/ \E tok \in Tokens, login \in Logins : GithubStoreToken(tok, login)
    \/ GithubGetToken

\* An archive carried from the vault that wrote it to another vault.
NextMigrate ==
    \/ \E pw \in MasterPasswords : PasswordUnlock(pw)
    \/ \E url \in Urls, u \in Usernames, p \in SitePasswords : PasswordSave(url, u, p)
    \/ \E id \in NamedIds : PasswordDecrypt(id)
    \/ \E pw \in MasterPasswords : ExportEncrypted(pw)
    \/ \E pw \in MasterPasswords, failing \in FailingInserts : ImportEncrypted(pw, failing)
    \/ NewVault

\* The cipher on its own.
NextCrypto ==
    \/ \E p \in Plaintexts, k \in CipherKeys \cup WrongLengths : Encrypt(p, k)
    \/ \E k \in CipherKeys \cup WrongLengths : Decrypt(k)

\* The two dependent stores and the rekey of password.unlock.
NextRekey ==
    \/ \E pw \in MasterPasswords : PasswordUnlock(pw)
    \/ PasswordLock
    \/ Restart
    \/ \E tok \in Tokens, login \in Logins : GithubStoreToken(tok, login)
    \/ GithubGetToken
    \/ \E p \in Providers, k \in ApiKeys : SetApiKey(p, k)
    \/ \E p \in Providers : GetApiKey(p)

\* The GitHub store and the secret facade, with the vault's lock state.
NextStore ==
    \/ \E pw \in MasterPasswords : PasswordUnlock(pw)
    \/ PasswordLock
    \/ Restart
    \/ \E tok \in Tokens, login \in Logins : GithubStoreToken(tok, login)
    \/ GithubGetToken
    \/ GithubLogout
    \/ \E k \in SecretKeys, v \in SecretValues : SecretStore(k, v)
    \/ \E k \in SecretKeys : SecretGet(k)
    \/ \E k \in SecretKeys : SecretDelete(k)
    \/ \E data \in SyncData : GithubEncryptSync(data)
    \/ \E encrypted \in SyncBlobs : GithubDecryptSync(encrypted)

\* The whole process.
Next ==
    \/ \E pw \in MasterPasswords : PasswordUnlock(pw)
    \/ PasswordLock
    \/ Restart
    \/ Tick
    \/ \E url \in Urls \cup {""} : PasswordList(url)
    \/ \E id \in NamedIds : PasswordDecrypt(id)
    \/ \E id \in NamedIds : DecryptPassword(id)
    \/ \E url \in Urls, u \in Usernames, p \in SitePasswords : PasswordSave(url, u, p)
    \/ \E id \in NamedIds, u \in Opt(NewUsernames), p \in Opt(NewPasswords),
          failing \in FailingStatements :
         PasswordUpdate(id, u, p, failing)
    \/ \E id \in NamedIds : PasswordDelete(id)
    \/ \E tok \in Tokens, login \in Logins : GithubStoreToken(tok, login)
    \/ GithubGetToken
    \/ GithubLogout
    \/ \E k \in SecretKeys, v \in SecretValues : SecretStore(k, v)
    \/ \E k \in SecretKeys : SecretGet(k)
    \/ \E k \in SecretKeys : SecretDelete(k)
    \/ \E p \in Providers, k \in ApiKeys : SetApiKey(p, k)
    \/ \E p \in Providers : GetApiKey(p)
    \/ \E url \in Urls \cup {""} : GetCredentials(url)
    \/ \E pw \in MasterPasswords : ExportEncrypted(pw)
    \/ \E pw \in MasterPasswords, failing \in FailingInserts : ImportEncrypted(pw, failing)

\* Every request, the clock standing still.
NextRequests ==
    \/ \E pw \in MasterPasswords : PasswordUnlock(pw)
    \/ PasswordLock
    \/ Restart
    \/ \E url \in Urls \cup {""} : PasswordList(url)
    \/ \E id \in NamedIds : PasswordDecrypt(id)
    \/ \E id \in NamedIds : DecryptPassword(id)
    \/ \E url \in Urls, u \in Usernames, p \in SitePasswords : PasswordSave(url, u, p)
    \/ \E id \in NamedIds, u \in Opt(NewUsernames), p \in Opt(NewPasswords),
          failing \in FailingStatements :
         PasswordUpdate(id, u, p, failing)
    \/ \E id \in NamedIds : PasswordDelete(id)
    \/ \E tok \in Tokens, login \in Logins : GithubStoreToken(tok, login)
    \/ GithubGetToken
    \/ GithubLogout
    \/ \E k \in SecretKeys, v \in SecretValues : SecretStore(k, v)
    \/ \E k \in SecretKeys : SecretGet(k)
    \/ \E k \in SecretKeys : SecretDelete(k)
    \/ \E p \in Providers, k \in ApiKeys : SetApiKey(p, k)
    \/ \E p \in Providers : GetApiKey(p)
    \/ \E url \in Urls \cup {""} : GetCredentials(url)
    \/ \E pw \in MasterPasswords : ExportEncrypted(pw)
    \/ \E pw \in MasterPasswords, failing \in FailingInserts : ImportEncrypted(pw, failing)

\* The process starts at second 0 where time passes between or within requests
\* (Spec, SpecVault, SpecMutex); elsewhere the clock stands at its last second and every
\* reading gives that second.
Init == Start(MaxOps, 0)
InitRequests == Start(MaxOps, MaxClock)
InitVault == Start(MaxVaultOps, 0)
InitStore == Start(MaxStoreOps, MaxClock)
InitArchive == Start(MaxArchiveOps, MaxClock)
InitRekey == Start(MaxRekeyOps, MaxClock)
InitCrypto == Start(MaxCryptoOps, MaxClock)
InitMigrate == Start(MaxMigrateOps, MaxClock)
InitMutex == Start(MaxMutexOps, 0)

Spec == Init /\ [][Next]_vars
SpecRequests == InitRequests /\ [][NextRequests]_vars
SpecVault == InitVault /\ [][NextVault]_vars
SpecStore == InitStore /\ [][NextStore]_vars
SpecArchive == InitArchive /\ [][NextArchive]_vars
SpecRekey == InitRekey /\ [][NextRekey]_vars
SpecCrypto == InitCrypto /\ [][NextCrypto]_vars
SpecMigrate == InitMigrate /\ [][NextMigrate]_vars
SpecMutex == InitMutex /\ [][NextMutex]_vars

\* ------------------------------------------------------------------- claims
LockedError == Err("InvalidKey: Password manager is locked")
True == Ok(Bool(TRUE))
False == Ok(Bool(FALSE))

\* A step that handles a request (not the passing of time, not stuttering).
Handled(method) == ops' = ops + 1 /\ ret'.op = method

\* The key derived from the committed password and the persisted salt.
MasterKey == derive_key(committed.v.s, credentials[MASTER_KEY_SALT_KEY].encrypted_password)

\* The last request was password.unlock with the committed password.
UnlockedWithCommitted ==
    /\ ret.op = "password.unlock"
    /\ committed # NONE
    /\ Bytes(ret.arg.pw) = committed.v

\* C1: whenever the vault is Unlocked, decrypt_password of the entry a
\* save_credential produced returns the password that was saved, however many
\* lock and unlock calls came in between; and a decrypt_password request on
\* such an entry answers with it.
C1_SavedPasswordReadableWhenUnlocked ==
    /\ \A id \in DOMAIN saved :
         derived_key # NONE =>
           decrypt_password(derived_key, saved[id].entry) = Ok(saved[id].password)
    /\ (ret.op = "decrypt_password" /\ derived_key # NONE) =>
         ret.res = Ok(saved[ret.arg.id].password)

\* C1 witness: a credential saved before a lock, and the vault unlocked again
\* with the committed password.
C1_Witness ==
    /\ UnlockedWithCommitted
    /\ ret.res = True
    /\ \E id \in DOMAIN saved : saved[id].relocked
    /\ derived_key # NONE

CredentialMethods ==
    {"password.save", "password.list", "password.decrypt", "decrypt_password",
     "password.update", "password.delete"}

\* C2: a credential operation handled while the vault is Locked returns the
\* locked error and changes no row of any table.
C2_LockedRejectsCredentialOps ==
    [][(derived_key = NONE /\ ops' = ops + 1 /\ ret'.op \in CredentialMethods)
         => /\ ret'.res = LockedError
            /\ credentials' = credentials
            /\ github_auth' = github_auth
            /\ secure_store' = secure_store]_vars

\* C2 witness: an update naming a stored credential was refused while Locked.
C2_Witness ==
    /\ ret.op = "password.update"
    /\ ret.res = LockedError
    /\ ret.arg.id \in ListedIds(credentials)
    /\ derived_key = NONE

\* C3: every unlock with the committed password returns true.
C3_CommittedPasswordAlwaysUnlocks ==
    UnlockedWithCommitted => ret.res = True

\* C4: with a verification token stored, an unlock with a password other than
\* the committed one returns false and changes no row of the credentials table
\* (salt, token, credentials).
C4_WrongPasswordIsFalseAndChangesNothing ==
    [][(/\ Handled("password.unlock")
        /\ MASTER_KEY_VERIFY_KEY \in DOMAIN credentials
        /\ committed # NONE
        /\ Bytes(ret'.arg.pw) # committed.v)
         => /\ ret'.res = False
            /\ credentials' = credentials]_vars

\* C4 witness: an unlock with another password was answered false over a
\* table that holds a credential.
C4_Witness ==
    /\ ret.op = "password.unlock"
    /\ committed # NONE
    /\ Bytes(ret.arg.pw) # committed.v
    /\ ret.res = False
    /\ ListedIds(credentials) # {}

\* C5 as claimed: after an unlock that returned false the vault is Locked.
C5_FalseUnlockMeansLocked ==
    (ret.op = "password.unlock" /\ ret.res = False)
      => (~is_unlocked(derived_key) /\ get_derived_key(derived_key) = NONE)

\* C5 amended: an unlock that returns false leaves the held key as it was, so
\* a Locked vault is Locked afterwards.
C5_FalseUnlockKeepsLockState ==
    [][(Handled("password.unlock") /\ ret'.res = False)
         => /\ derived_key' = derived_key
            /\ (derived_key = NONE =>
                  ~is_unlocked(derived_key') /\ get_derived_key(derived_key') = NONE)]_vars

\* C5 witness: a Locked vault after an unlock that returned false.
C5_Witness ==
    /\ ret.op = "password.unlock"
    /\ ret.res = False
    /\ derived_key = NONE

\* C6: when the row of the GitHub store is under the fallback key and the
\* rekey of a password.unlock succeeds, get_token returns the stored token and
\* the row is ciphertext under the master key, no longer under the fallback key.
C6_RekeyPreservesToken ==
    [][(/\ Handled("password.unlock")
        /\ ret'.rekey = "ok"
        /\ github_auth # NONE
        /\ github.encryption_key = github.fallback_key
        /\ GcmOpens(AuthEncrypted(github_auth), github.fallback_key))
         => /\ token # NONE
            /\ get_token(github_auth', github') = Ok(token)
            /\ GcmOpens(AuthEncrypted(github_auth'), derived_key'.v)
            /\ ~GcmOpens(AuthEncrypted(github_auth'), github.fallback_key)]_vars

\* C6 witness: the first unlock, right after a token was stored, rekeyed the row.
C6_Witness ==
    /\ ret.op = "password.unlock"
    /\ ret.rekey = "ok"
    /\ ops = 2
    /\ github_auth # NONE
    /\ GcmOpens(AuthEncrypted(github_auth), derived_key.v)

\* C7: after a password.unlock with the committed password that returned
\* true, a token that a rekey had put under the master key is returned by
\* get_token, whatever locks, failed unlocks and restarts came in between.
C7_UnlockMakesRekeyedTokenReadable ==
    (UnlockedWithCommitted /\ ret.res = True /\ rekeyed)
      => get_token(github_auth, github) = Ok(token)

\* C8: while the vault is Locked, get_token fails on a token that a rekey
\* had put under the master key.
C8_LockedVaultHidesRekeyedToken ==
    (~is_unlocked(derived_key) /\ rekeyed)
      => ~get_token(github_auth, github).ok

\* C9: when the row does not open under the store's active key, the rekey of
\* a password.unlock reports an error and leaves the row and the active key
\* as they were.
C9_FailedRekeyLeavesRowAndKey ==
    [][(/\ Handled("password.unlock")
        /\ ret'.res = True
        /\ github_auth # NONE
        /\ ~decrypt_aes256gcm(AuthEncrypted(github_auth), github.encryption_key).ok)
         => /\ ret'.rekey = "err"
            /\ github_auth' = github_auth
            /\ github'.encryption_key = github.encryption_key]_vars

\* C9 witness: an unlock whose rekey of a stored row failed.
C9_Witness ==
    /\ ret.op = "password.unlock"
    /\ ret.rekey = "err"
    /\ github_auth # NONE

\* C10: a secure_store row with uses_master set is under the master key, and
\* one without is under the GitHub store's fallback key.
C10_UsesMasterTellsTheKey ==
    \A k \in DOMAIN secure_store :
      LET row == secure_store[k]
          enc == [ciphertext |-> row.ciphertext, iv |-> row.iv, auth_tag |-> row.auth_tag]
      IN  IF row.uses_master # 0
          THEN committed # NONE /\ GcmOpens(enc, MasterKey)
          ELSE GcmOpens(enc, github.fallback_key)

MasterRequired == Err("master password required to decrypt this secret")

SecretRow(k) ==
    [ciphertext |-> secure_store[k].ciphertext, iv |-> secure_store[k].iv,
     auth_tag |-> secure_store[k].auth_tag]

\* C11: secret.get on a row with uses_master set, handled while the vault is
\* Locked, answers with the master-required error whatever key the row would
\* open under, and changes nothing.
C11_LockedGetOfMasterRowIsRefused ==
    [][(/\ Handled("secret.get")
        /\ ret'.arg.key \in DOMAIN secure_store
        /\ secure_store[ret'.arg.key].uses_master # 0
        /\ ~is_unlocked(derived_key))
         => /\ ret'.res = MasterRequired
            /\ secure_store' = secure_store
            /\ github' = github
            /\ derived_key' = derived_key]_vars

\* C11 witness: the request was refused although the row opens under the key
\* the GitHub store holds.
C11_Witness ==
    /\ ret.op = "secret.get"
    /\ ret.res = MasterRequired
    /\ ret.arg.key \in DOMAIN secure_store
    /\ GcmOpens(SecretRow(ret.arg.key), github.encryption_key)

\* C12: whenever the vault is Unlocked, secret.get returns the value that a
\* secret.store handled while Unlocked put in the row, however many
\* password.lock, password.unlock and restarts came in between.
C12_MasterSecretReadableWhenUnlocked ==
    /\ \A k \in DOMAIN stored :
         (stored[k].unlocked /\ is_unlocked(derived_key))
           => secret_get(secure_store, derived_key, github, k) = Ok(Some(stored[k].value))
    /\ (/\ ret.op = "secret.get" /\ is_unlocked(derived_key)
        /\ ret.arg.key \in DOMAIN stored /\ stored[ret.arg.key].unlocked)
         => ret.res = Ok(Some(stored[ret.arg.key].value))

\* C12 witness: secret.get answered with the value after a lock and an unlock.
C12_Witness ==
    /\ ret.op = "secret.get"
    /\ is_unlocked(derived_key)
    /\ ret.arg.key \in DOMAIN stored
    /\ stored[ret.arg.key].unlocked
    /\ stored[ret.arg.key].relocked
    /\ ret.res = Ok(Some(stored[ret.arg.key].value))

\* C13: once the verification-token row exists, no step changes or removes it.
C13_VerificationTokenIsReadOnly ==
    [][(MASTER_KEY_VERIFY_KEY \in DOMAIN credentials)
         => /\ MASTER_KEY_VERIFY_KEY \in DOMAIN credentials'
            /\ credentials'[MASTER_KEY_VERIFY_KEY] = credentials[MASTER_KEY_VERIFY_KEY]]_vars

\* C14: once the salt row exists, no step changes the salt it holds, and an
\* unlock that returns true holds the key derived from that salt.
C14_MasterSaltNeverChanges ==
    [][(MASTER_KEY_SALT_KEY \in DOMAIN credentials)
         => /\ MASTER_KEY_SALT_KEY \in DOMAIN credentials'
            /\ credentials'[MASTER_KEY_SALT_KEY].encrypted_password
                  = credentials[MASTER_KEY_SALT_KEY].encrypted_password
            /\ (Handled("password.unlock") /\ ret'.res = True)
                  => derived_key'
                       = Some(derive_key(ret'.arg.pw,
                                         credentials[MASTER_KEY_SALT_KEY].encrypted_password))]_vars

\* C15: an update_credential that returns an error leaves every row of the
\* credentials table as it was.
C15_FailedUpdateChangesNothing ==
    [][(Handled("password.update") /\ ~ret'.res.ok) => credentials' = credentials]_vars

\* The provider rows of the AI assistant, and whether they all open under a key.
AiRows(creds) == {id \in DOMAIN creds : id.t = "ai_key"}
AiRowsOpen(creds, key) == \A id \in AiRows(creds) : GcmOpens(EncryptedOf(creds[id]), key)
GithubRowOpens(auth, key) == auth = NONE \/ GcmOpens(AuthEncrypted(auth), key)

\* C16: a password.unlock that returns true leaves the vault Unlocked; when
\* the rekey of the GitHub store fails and the rows of the AI assistant open
\* under its active key, the assistant is rekeyed to the master key all the
\* same, and when the rekey of the assistant fails the GitHub store is.
C16_OneFailedRekeyDoesNotBlockTheOther ==
    [][(Handled("password.unlock") /\ ret'.res = True)
         => /\ is_unlocked(derived_key')
            /\ (/\ ~GithubRowOpens(github_auth, github.encryption_key)
                /\ AiRowsOpen(credentials, assistant.encryption_key))
                 => /\ ret'.rekey = "err"
                    /\ assistant'.encryption_key = derived_key'.v
                    /\ AiRowsOpen(credentials', derived_key'.v)
            /\ (/\ ~AiRowsOpen(credentials, assistant.encryption_key)
                /\ GithubRowOpens(github_auth, github.encryption_key))
                 => /\ ret'.rekey = "ok"
                    /\ github'.encryption_key = derived_key'.v
                    /\ GithubRowOpens(github_auth', derived_key'.v)]_vars

\* C16 witness: an unlock whose rekey of the GitHub store failed, after which
\* the assistant holds the master key and its stored row is under it.
C16_Witness ==
    /\ ret.op = "password.unlock"
    /\ ret.res = True
    /\ ret.rekey = "err"
    /\ is_unlocked(derived_key)
    /\ AiRows(credentials) # {}
    /\ assistant.encryption_key = derived_key.v
    /\ AiRowsOpen(credentials, derived_key.v)
    /\ github.encryption_key = github.fallback_key

ReservedIds == {MASTER_KEY_SALT_KEY, MASTER_KEY_VERIFY_KEY}

\* C17: password.lock leaves the vault Locked after zeroing the 32 bytes of
\* the key it held; lock of a Locked vault is lock of nothing, and a
\* password.lock handled while Locked changes neither the vault nor any table.
C17_LockZeroizesAndIsIdempotent ==
    [][Handled("password.lock")
         => /\ ~is_unlocked(derived_key')
            /\ get_derived_key(derived_key') = NONE
            /\ is_unlocked(derived_key)
                 => lock_zeroize(derived_key) = Some([t |-> "zero", len |-> KEY_LENGTH])
            /\ lock(lock(derived_key)) = lock(derived_key)
            /\ lock(derived_key') = derived_key'
            /\ ~is_unlocked(derived_key)
                 => /\ derived_key' = derived_key
                    /\ credentials' = credentials
                    /\ github_auth' = github_auth
                    /\ secure_store' = secure_store]_vars

\* C17 witness: a password.lock handled after the vault had been unlocked.
C17_Witness ==
    /\ ret.op = "password.lock"
    /\ committed # NONE
    /\ ~is_unlocked(derived_key)

\* The entries of an archive file as import_encrypted would read them with
\* the password pw; none when the file does not open under it.
ArchiveEntries(file, pw) ==
    LET json == decrypt_aes256gcm(file.v.data, derive_key(pw, file.v.salt))
    IN  IF json.ok /\ FromJson(json.v).ok THEN FromJson(json.v).v.xs ELSE <<>>

\* C18: no answer of get_credentials (any url, the empty one included) or of
\* password.list, and no archive export_encrypted wrote, holds the salt row
\* or the verification-token row, and no password.delete removes either.
C18_ReservedRowsAreHidden ==
    [][/\ (ops' = ops + 1 /\ ret'.op \in {"get_credentials", "password.list"} /\ ret'.res.ok)
          => \A i \in DOMAIN ret'.res.v.xs : ret'.res.v.xs[i].id \notin ReservedIds
       /\ (Handled("export_encrypted") /\ ret'.res.ok)
          => \A i \in DOMAIN ArchiveEntries(archive', ret'.arg.pw) :
               ArchiveEntries(archive', ret'.arg.pw)[i].id \notin ReservedIds
       /\ Handled("password.delete")
          => \A id \in ReservedIds \cap DOMAIN credentials :
               id \in DOMAIN credentials' /\ credentials'[id] = credentials[id]]_vars

\* C18 witness: get_credentials with the empty url, the url of the two
\* reserved rows, answered with no entry.
C18_Witness ==
    /\ ret.op = "get_credentials"
    /\ ret.arg.url = ""
    /\ ret.res.ok
    /\ Len(ret.res.v.xs) = 0
    /\ ReservedIds \subseteq DOMAIN credentials
    /\ \A id \in ReservedIds : credentials[id].url = ""

\* The credentials table with the stored passwords blanked.
Redact(creds) ==
    [id \in DOMAIN creds |->
       [creds[id] EXCEPT !.encrypted_password = EmptyBytes, !.iv = EmptyBytes,
                         !.auth_tag = EmptyBytes]]

\* What password.list may answer over a table, for a url.
ListAnswers(creds, held_key, url) ==
    IF url = ""
    THEN {ListResponse(list_all_credentials(creds, held_key, order)) :
            order \in RowOrders(creds, ListedIds(creds), TRUE)}
    ELSE {ListResponse(get_credentials(creds, held_key, url, order)) :
            order \in RowOrders(creds, IdsForUrl(creds, url), FALSE)}

\* C19: the answer of password.list is an answer it may give over the table
\* with every stored password blanked: it carries id, url, username,
\* created_at and updated_at only, and does not depend on the passwords.
C19_ListDoesNotDependOnPasswords ==
    [][Handled("password.list")
         => /\ ret'.res \in ListAnswers(Redact(credentials), derived_key, ret'.arg.url)
            /\ ret'.res.ok
                 => \A i \in DOMAIN ret'.res.v.xs :
                      DOMAIN ret'.res.v.xs[i]
                        = {"id", "url", "username", "created_at", "updated_at"}]_vars

\* C19 witness: password.list answered with a credential.
C19_Witness ==
    /\ ret.op = "password.list"
    /\ ret.res.ok
    /\ Len(ret.res.v.xs) > 0

\* The byte strings that must not reach storage: passwords, tokens, API
\* keys, secret values, master passwords, and the keys held in memory.
SecretBytes ==
    {Bytes(x) : x \in SitePasswords \cup NewPasswords \cup Tokens \cup ApiKeys
                      \cup SecretValues \cup MasterPasswords}
      \cup {github.encryption_key, github.fallback_key, assistant.encryption_key}
      \cup (IF derived_key # NONE THEN {derived_key.v} ELSE {})

\* An EncryptedData that a seal under a derived key produced.
IsSealed(enc) ==
    /\ enc.ciphertext.t = "ct"
    /\ enc.ciphertext.k.t = "key"
    /\ enc.auth_tag.t = "tag"
    /\ enc.ciphertext \notin SecretBytes

\* C20: every password, token, API key and secret value in the credentials
\* table, the github_auth row, the secure_store table and the archive file is
\* sealed ciphertext, and none of them is a plaintext secret or a key.
C20_OnlyCiphertextIsPersisted ==
    /\ \A id \in (DOMAIN credentials) \ {MASTER_KEY_SALT_KEY} :
         IsSealed(EncryptedOf(credentials[id]))
    /\ MASTER_KEY_SALT_KEY \in DOMAIN credentials
         => credentials[MASTER_KEY_SALT_KEY].encrypted_password \notin SecretBytes
    /\ github_auth # NONE => IsSealed(AuthEncrypted(github_auth))
    /\ \A k \in DOMAIN secure_store : IsSealed(SecretRow(k))
    /\ archive # NONE
         => /\ IsSealed(archive.v.data)
            /\ archive.v.salt \notin SecretBytes
            /\ \A pw \in MasterPasswords :
                 \A i \in DOMAIN ArchiveEntries(archive, pw) :
                   IsSealed(EncryptedOf(ArchiveEntries(archive, pw)[i]))

\* C20 witness: a saved credential and a stored token are in the database.
C20_Witness ==
    /\ ListedIds(credentials) # {}
    /\ github_auth # NONE

\* C21: decrypt_aes256gcm of the blob encrypt_aes256gcm returned, unaltered and
\* under the key it was sealed with, returns the plaintext, the empty one
\* included; and encrypt_aes256gcm succeeds under every key of 32 bytes.
C21_DecryptInvertsEncrypt ==
    /\ (ret.op = "encrypt_aes256gcm" /\ ByteLen(ret.arg.key) = KEY_LENGTH) => ret.res.ok
    /\ (/\ ret.op = "decrypt_aes256gcm"
        /\ ret.arg.altered = "none"
        /\ ret.arg.key = ret.arg.sealed_with)
         => ret.res = Ok(ret.arg.plaintext)

\* C21 witness: the empty plaintext came back under a key that was not derived.
C21_Witness ==
    /\ ret.op = "decrypt_aes256gcm"
    /\ ret.arg.altered = "none"
    /\ ret.arg.key = ret.arg.sealed_with
    /\ ret.arg.key.t = "str"
    /\ ret.arg.plaintext = Bytes("")
    /\ ret.res = Ok(Bytes(""))

\* C22: decrypt_aes256gcm with another key than the sealing one, or on a blob
\* with a byte of ciphertext, nonce or tag altered, returns an error, which
\* carries no plaintext; it returns bytes only for the unaltered blob under
\* the sealing key.
C22_DecryptRejectsOtherKeyOrAlteredBlob ==
    ret.op = "decrypt_aes256gcm"
      => /\ (ret.arg.key # ret.arg.sealed_with \/ ret.arg.altered # "none")
              => (~ret.res.ok /\ DOMAIN ret.res.v = {"t", "e"} /\ ret.res.v.t = "err")
         /\ ret.res.ok
              => (/\ ret.arg.key = ret.arg.sealed_with
                  /\ ret.arg.altered = "none"
                  /\ ret.res.v = ret.arg.plaintext)

\* C22 witness: the last byte of the tag of a non-empty payload was altered
\* and the sealing key used.
C22_Witness ==
    /\ ret.op = "decrypt_aes256gcm"
    /\ ret.arg.altered = "auth_tag"
    /\ ret.arg.blob.auth_tag.at = TAG_LENGTH - 1
    /\ ret.arg.key = ret.arg.sealed_with
    /\ ret.arg.plaintext = Bytes("s3cret")
    /\ ~ret.res.ok

\* C23: encrypt_aes256gcm and decrypt_aes256gcm answer a key that is not 32
\* bytes with the key-length error, and decrypt_aes256gcm answers a nonce
\* that is not 12 bytes, then a tag that is not 16 bytes, with the length
\* error of that field, not with the error of the cipher.
C23_LengthsAreCheckedBeforeTheCipher ==
    /\ (ret.op \in {"encrypt_aes256gcm", "decrypt_aes256gcm"}
          /\ ByteLen(ret.arg.key) # KEY_LENGTH)
         => ret.res = Err("InvalidKey")
    /\ (ret.op = "decrypt_aes256gcm" /\ ByteLen(ret.arg.key) = KEY_LENGTH)
         => /\ ByteLen(ret.arg.blob.iv) # NONCE_LENGTH
                 => ret.res = Err("Decryption: IV must be 12 bytes")
            /\ (ByteLen(ret.arg.blob.iv) = NONCE_LENGTH
                  /\ ByteLen(ret.arg.blob.auth_tag) # TAG_LENGTH)
                 => ret.res = Err("Decryption: Auth tag must be 16 bytes")

\* C23 witness: a tag of 33 bytes on a blob whose other fields are as sealed,
\* under the sealing key.
C23_Witness ==
    /\ ret.op = "decrypt_aes256gcm"
    /\ ret.arg.altered = "tag_length"
    /\ ByteLen(ret.arg.blob.auth_tag) > TAG_LENGTH
    /\ ret.arg.key = ret.arg.sealed_with
    /\ ret.res = Err("Decryption: Auth tag must be 16 bytes")

\* C24: right after the GitHub store is constructed, is_authenticated is true
\* exactly when a github_auth row exists, so a token stored before a restart is
\* reported as authenticated after it.
C24_AuthenticatedAfterConstructionIffRow ==
    [][Handled("restart") => (is_authenticated(github') = (github_auth' # NONE))]_vars

C24_Witness ==
    /\ ret.op = "restart"
    /\ github_auth # NONE
    /\ token # NONE
    /\ is_authenticated(github)

\* C25: on an unlocked vault, an export_encrypted followed by an
\* import_encrypted with the same password on the same file, every INSERT of
\* which the database accepts, leaves the set of
\* credential ids as it was, returns the number of archived entries, and
\* leaves decrypt_password of every credential returning what it returned
\* before the export.
C25_ExportThenImportRestoresTheVault ==
    [][(/\ Handled("import_encrypted")
        /\ ret.op = "export_encrypted"
        /\ ret.res.ok
        /\ ret'.arg.pw = ret.arg.pw
        /\ ret'.arg.failing = 0)
       => /\ ListedIds(credentials') = ListedIds(credentials)
          /\ ret'.res = Ok([t |-> "u32", n |-> Cardinality(ListedIds(credentials))])
          /\ Len(ArchiveEntries(archive, ret.arg.pw)) = Cardinality(ListedIds(credentials))
          /\ \A id \in ListedIds(credentials) :
               /\ decrypt_password(derived_key', Entry(credentials', id)).ok
               /\ decrypt_password(derived_key', Entry(credentials', id))
                    = decrypt_password(derived_key, Entry(credentials, id))]_vars

C25_Witness ==
    /\ ret.op = "import_encrypted"
    /\ ret.res.ok
    /\ ret.res.v.n > 0
    /\ ret.res.v.n = Cardinality(ListedIds(credentials))
    /\ ops = 4

\* C26: an archive export_encrypted wrote does not depend on the key of the
\* vault that wrote it: after an import_encrypted with the export password
\* succeeds in an Unlocked vault, under whatever master key, decrypt_password
\* of every imported credential returns the password that was saved.
C26_ImportedCredentialsDecrypt ==
    (ret.op = "import_encrypted" /\ ret.res.ok)
      => \A id \in DOMAIN saved \cap ListedIds(credentials) :
           decrypt_password(derived_key, Entry(credentials, id)) = Ok(saved[id].password)

\* C27: secret.get for a key that has no row answers with the absent value
\* (null), never with an error, whether the vault is Locked or Unlocked, and
\* whatever rows other keys have.
C27_SecretGetOfMissingKeyIsAbsent ==
    [][(Handled("secret.get") /\ ret'.arg.key \notin DOMAIN secure_store)
         => /\ ret'.res = Ok(NONE)
            /\ secure_store' = secure_store]_vars

\* C27 witness: the vault is Locked, another key has a row that needs the
\* master key, and the key asked for has none.
C27_Witness ==
    /\ ret.op = "secret.get"
    /\ ret.arg.key \notin DOMAIN secure_store
    /\ ret.res = Ok(NONE)
    /\ ~is_unlocked(derived_key)
    /\ \E k \in DOMAIN secure_store : secure_store[k].uses_master = 1

\* C28: secret.delete answers with success whether or not the key has a row,
\* Locked or Unlocked, whatever the row's uses_master; it leaves every other
\* key's row as it was, and a secret.get of the key is absent afterwards.
C28_SecretDeleteRemovesOnlyItsKey ==
    [][Handled("secret.delete")
         => /\ ret'.res = Ok(Bool(TRUE))
            /\ DOMAIN secure_store' = (DOMAIN secure_store) \ {ret'.arg.key}
            /\ \A k \in DOMAIN secure_store' : secure_store'[k] = secure_store[k]
            /\ secret_get(secure_store', derived_key', github', ret'.arg.key) = Ok(NONE)
            /\ credentials' = credentials
            /\ github_auth' = github_auth]_vars

\* C28 witness: a row that needs the master key was deleted while the vault was
\* Locked, and the other key's row is still there.
C28_Witness ==
    /\ ret.op = "secret.delete"
    /\ ret.arg.removed = Some(1)
    /\ ~is_unlocked(derived_key)
    /\ ret.arg.key \notin DOMAIN secure_store
    /\ secure_store # EmptyTable

\* C29: the GitHub store holds one secret: every store_token leaves the one
\* 'default' row, sealing the token just stored, and get_token right after it
\* returns that token; while the vault has never been unlocked (so that no
\* rekey has taken place), every get_token returns the token stored last; and
\* with no row get_token returns None, not an error.
C29_SingleSlotHoldsLatestToken ==
    [][/\ (Handled("github.store_token") /\ ret'.res.ok)
          => /\ github_auth' # NONE
             /\ get_token(github_auth', github') = Ok(Some(Bytes(ret'.arg.token)))
             /\ token' = Some(Bytes(ret'.arg.token))
       /\ (Handled("github.get_token") /\ committed = NONE)
          => ret'.res = Ok(token)
       /\ (Handled("github.get_token") /\ github_auth = NONE)
          => ret'.res = Ok(NONE)]_vars

\* C29 witness: a store_token replaced the row of an earlier one, and
\* get_token returns the token of the later.
C29_Witness ==
    /\ ret.op = "github.store_token"
    /\ ret.arg.replaced
    /\ ret.res.ok
    /\ get_token(github_auth, github) = Ok(Some(Bytes(ret.arg.token)))

\* C30: the rekey of password.unlock, run while the GitHub store has no row,
\* succeeds, creates no row and makes the master key the active key, and any
\* token stored after it is returned unchanged by get_token.
C30_RekeyWithoutRowSucceeds ==
    [][(Handled("password.unlock") /\ ret'.res = True /\ github_auth = NONE)
         => /\ ret'.rekey = "ok"
            /\ github_auth' = NONE
            /\ github'.encryption_key = get_derived_key(derived_key').v
            /\ \A tok \in Tokens, login \in Logins :
                 LET o == store_token(github_auth', github', tok, login, NONE, 0, clock')
                 IN  /\ o.res.ok
                     /\ get_token(o.auth, github') = Ok(Some(Bytes(tok)))]_vars

\* C30 witness: unlock with no row, then store_token, then a get_token that
\* returns the token under the master key.
C30_Witness ==
    /\ ret.op = "github.get_token"
    /\ ops = 3
    /\ token # NONE
    /\ ret.res = Ok(token)
    /\ ~rekeyed
    /\ is_unlocked(derived_key)
    /\ github.encryption_key = get_derived_key(derived_key).v

\* C31: a secret that secret.store wrote while the vault was Locked
\* (uses_master = 0) is returned unchanged by secret.get in every later
\* state, whatever password.unlock and password.lock were handled since,
\* until the key is stored again or deleted.
C31_LockedSecretStaysReadable ==
    /\ \A k \in DOMAIN stored :
         ~stored[k].unlocked
           => secret_get(secure_store, derived_key, github, k) = Ok(Some(stored[k].value))
    /\ (/\ ret.op = "secret.get"
        /\ ret.arg.key \in DOMAIN stored
        /\ ~stored[ret.arg.key].unlocked)
         => ret.res = Ok(Some(stored[ret.arg.key].value))

\* C32: the rekey of the dependent stores is invoked once per session, right
\* after the first password.unlock that returns true: an unlock that returns
\* false invokes none, the first successful unlock on a database invokes one,
\* and a successful unlock of a vault that is already Unlocked (a later
\* successful unlock of the same session) invokes none.
C32_RekeyOncePerSession ==
    [][Handled("password.unlock")
         => /\ (ret'.res # True) => ret'.rekey = "none"
            /\ (ret'.res = True /\ committed = NONE) => ret'.rekey # "none"
            /\ (ret'.res = True /\ is_unlocked(derived_key))
                 => /\ ret'.rekey = "none"
                    /\ github_auth' = github_auth]_vars

\* The secure_store rows a step wrote.
WrittenSecrets ==
    {k \in DOMAIN secure_store' :
       k \notin DOMAIN secure_store \/ secure_store'[k] # secure_store[k]}

RowOf(rows, k) ==
    [ciphertext |-> rows[k].ciphertext, iv |-> rows[k].iv, auth_tag |-> rows[k].auth_tag]

\* C33: every handler runs under one acquisition of the App mutex: a request
\* starts only while no thread holds the guard; the state a request starts in
\* never has the vault Unlocked with the GitHub store's active key other than
\* the master key; and a row secret.store writes has uses_master = 1 exactly
\* when the vault is Unlocked at the write, sealed under the vault's key then
\* and under the store's active key otherwise.
C33_HandlersAreCriticalSections ==
    [][/\ (ops' = ops + 1)
          => /\ app_mutex = NONE
             /\ \A t \in Threads : pc'[t] # Idle => app_mutex' = Some(t)
             /\ is_unlocked(derived_key)
                  => github.encryption_key = get_derived_key(derived_key).v
       /\ \A k \in WrittenSecrets :
            IF secure_store'[k].uses_master = 1
            THEN /\ is_unlocked(derived_key)
                 /\ GcmOpens(RowOf(secure_store', k), get_derived_key(derived_key).v)
            ELSE /\ ~is_unlocked(derived_key)
                 /\ GcmOpens(RowOf(secure_store', k), github.encryption_key)]_vars

\* C33 witness: inside password.unlock, after the unlock and before the rekey,
\* the vault is Unlocked and the store still holds another key, while the
\* other thread has a request to make.
C33_Witness ==
    /\ app_mutex = Some(1)
    /\ pc[1].at = "unlock.rekey_github"
    /\ pc[2] = Idle
    /\ is_unlocked(derived_key)
    /\ github.encryption_key # get_derived_key(derived_key).v
    /\ github_auth # NONE
    /\ ops < budget

\* C34: an import_encrypted that returns an error (the vault Locked, a
\* password the archive does not open under, no readable archive, or an INSERT
\* the database refuses) has added and replaced no credential row.
C34_FailedImportWritesNothing ==
    [][(Handled("import_encrypted") /\ ~ret'.res.ok) => credentials' = credentials]_vars

\* C35: in every state get_derived_key() returns a key exactly when
\* is_unlocked() is true, and that key is the one derived from the committed
\* master password and the persisted salt: it opens the persisted
\* verification token to the fixed marker.
C35_HeldKeyIsTheCommittedKey ==
    /\ (get_derived_key(derived_key) # NONE) = is_unlocked(derived_key)
    /\ is_unlocked(derived_key)
         => /\ committed # NONE
            /\ MASTER_KEY_SALT_KEY \in DOMAIN credentials
            /\ get_derived_key(derived_key).v
                 = derive_key(committed.v.s, credentials[MASTER_KEY_SALT_KEY].encrypted_password)
            /\ get_verification_token(credentials) # NONE
            /\ decrypt_aes256gcm(get_verification_token(credentials).v,
                                 get_derived_key(derived_key).v)
                 = Ok(MASTER_KEY_VERIFY_PLAINTEXT)

\* C36: the vault's operations act on the vault's credentials only: no answer
\* of password.list or get_credentials and no archive of export_encrypted
\* holds an 'ai_key_<provider>' row of the AI assistant, and no
\* password.update or password.delete changes or removes such a row.
C36_VaultLeavesAssistantRowsAlone ==
    [][/\ (ops' = ops + 1 /\ ret'.op \in {"get_credentials", "password.list"} /\ ret'.res.ok)
          => \A i \in DOMAIN ret'.res.v.xs : ret'.res.v.xs[i].id \notin AiRows(credentials)
       /\ (Handled("export_encrypted") /\ ret'.res.ok)
          => \A i \in DOMAIN ArchiveEntries(archive', ret'.arg.pw) :
               ArchiveEntries(archive', ret'.arg.pw)[i].id \notin AiRows(credentials)
       /\ (ops' = ops + 1 /\ ret'.op \in {"password.update", "password.delete"})
          => \A id \in AiRows(credentials) :
               id \in DOMAIN credentials' /\ credentials'[id] = credentials[id]]_vars

\* C37 as claimed: in every state is_authenticated() is true exactly when a
\* github_auth row exists, directly after a store_token on an instance that
\* was constructed with no row included.
C37_AuthenticatedIffRow ==
    is_authenticated(github) = (github_auth # NONE)

\* C37 as amended: is_authenticated() is true only when a github_auth row
\* exists; it equals the existence of the row directly after construction
\* and directly after logout; store_token leaves it as it was.
C37_AuthenticatedIsSetAtConstruction ==
    [][/\ is_authenticated(github') => github_auth' # NONE
       /\ (Handled("restart") \/ Handled("github.logout"))
            => is_authenticated(github') = (github_auth' # NONE)
       /\ Handled("github.store_token")
            => is_authenticated(github') = is_authenticated(github)]_vars

\* C37 witness: a store_token on an instance constructed with no row wrote the
\* row, and is_authenticated() is still false.
C37_Witness ==
    /\ ret.op = "github.store_token"
    /\ ret.res.ok
    /\ ~ret.arg.replaced
    /\ github_auth # NONE
    /\ ~is_authenticated(github)

KeepsTheActiveKey ==
    {"github.store_token", "github.get_token", "github.logout", "github.encrypt_sync",
     "github.decrypt_sync", "secret.store", "secret.get", "secret.delete", "password.lock"}

\* C38: the GitHub store's active key changes only through the rekey of a
\* password.unlock (a restart constructs the store anew): store_token,
\* get_token, logout, encrypt_sync, decrypt_sync, secret.store, secret.get,
\* secret.delete and password.lock leave the active key as it was.
C38_OnlyRekeyChangesTheActiveKey ==
    [][/\ (ops' = ops + 1 /\ ret'.op \in KeepsTheActiveKey)
          => github'.encryption_key = github.encryption_key
       /\ (github'.encryption_key # github.encryption_key)
          => \/ Handled("password.unlock") /\ ret'.res = True /\ ret'.rekey = "ok"
             \/ Handled("restart")]_vars

\* C38 witness: a logout handled after a rekey left the master key in place.
C38_Witness ==
    /\ ret.op = "github.logout"
    /\ github_auth = NONE
    /\ github.encryption_key # github.fallback_key

\* C39: the rekey is idempotent within a session: a password.unlock that
\* returns true while the GitHub store's active key already is that master
\* key rekeys with success, leaves the active key equal to the master key, and
\* leaves the result of get_token as it was.
C39_RekeyIsIdempotent ==
    [][(/\ Handled("password.unlock")
        /\ ret'.res = True
        /\ github.encryption_key = get_derived_key(derived_key').v)
         => /\ ret'.rekey = "ok"
            /\ github'.encryption_key = get_derived_key(derived_key').v
            /\ get_token(github_auth', github') = get_token(github_auth, github)
            /\ get_token(github_auth', github').ok]_vars

\* C39 witness: a second successful unlock of the session rekeyed a store
\* that holds a token, and get_token still returns the token.
C39_Witness ==
    /\ ret.op = "password.unlock"
    /\ ret.arg.again
    /\ ret.res = True
    /\ ret.rekey = "ok"
    /\ github_auth # NONE
    /\ token # NONE
    /\ get_token(github_auth, github) = Ok(token)

====
